---- MODULE Spec2Model ----
(***************************************************************************)
(* Verification model of the wasmi_v1 register-machine engine:             *)
(*   - the execution stack (value stack + frame stack),                    *)
(*   - the copy analyzer of the instruction builder (TrueCopies),          *)
(*   - label pinning and the IR -> executable compilation of branches.     *)
(***************************************************************************)
EXTENDS Integers, Sequences, FiniteSets, TLC

VARIABLES
    values,     \* ValueStack::values, the cells of the value stack
    frames,     \* FrameStack, the call frames (bottom first)
    phase,      \* position of the executor driving the Stack
    last,       \* record of the last Stack operation and its outcome
    insts,      \* InstructionsBuilder::insts
    labels,     \* InstructionsBuilder::labels (LabelRegistry)
    bstate,     \* position of the function builder
    blast,      \* record of the last builder operation
    exec,       \* instruction table produced by EngineInner::compile
    cp_results, \* copy analyzer input: results register slice
    cp_inputs,  \* copy analyzer input: input providers
    arena,      \* ProviderSliceArena of the function builder
    cp_out,     \* copy analyzer output
    cp_pc,      \* position of the copy analyzer driver
    res,        \* EngineResources: const_pool, provider_pool, and the code map
    elast,      \* record of the engine operations performed so far
    enc,        \* an ExecProvider being encoded and decoded
    runs,       \* two separate translate-and-compile runs of one function
    lock,       \* the engine mutex: 0 when free, else the thread holding it
    threads,    \* the threads calling into one shared Engine
    tr,         \* the function translator: operators read, stacks, instructions
    cf          \* a control frame of the translator and the calls made on it

vars == <<values, frames, phase, last, insts, labels, bstate, blast, exec,
          cp_results, cp_inputs, arena, cp_out, cp_pc, res, elast, enc,
          runs, lock, threads, tr, cf>>

stack_vars == <<values, frames, phase, last>>
build_vars == <<insts, labels, bstate, blast, exec>>
copy_vars  == <<cp_results, cp_inputs, arena, cp_out, cp_pc>>
engine_vars == <<res, elast, enc, runs, lock, threads, tr, cf>>
thread_vars == <<runs, lock, threads, tr, cf>>

(***************************************************************************)
(* Bounds                                                                  *)
(***************************************************************************)
\* StackLimits::maximum_len of the modelled engine configuration
maximum_len == 4
\* StackLimits::maximum_recursion_depth of the modelled engine configuration
maximum_recursion_depth == 3
\* largest value of the usize type (scaled down from 2^64 - 1)
UsizeMax == 15

\* cell values: the default (zero) and one other value; the Stack only moves
\* cells and never inspects them
Vals == {0, 1}

Min(a, b) == IF a < b THEN a ELSE b
Max(a, b) == IF a < b THEN b ELSE a
Abs(a) == IF a < 0 THEN 0 - a ELSE a

\* sequences over S of length lo..hi
SeqsOf(S, lo, hi) == UNION {[1..n -> S] : n \in lo..hi}

(***************************************************************************)
(* Providers and constants                                                 *)
(***************************************************************************)
\* the constant pool of the engine resources (res.const_pool)
ConstPool == <<1, 0>>

\* ConstPool::resolve
resolve_const(cref) == ConstPool[cref + 1]

\* ExecProvider::from_register
from_register(register) == register

\* i32::MAX
i32_MAX == 2147483647

\* i32::wrapping_add(1)
wrapping_add_1(x) == IF x = i32_MAX THEN (0 - i32_MAX) - 1 ELSE x + 1

\* ExecProvider::from_immediate, ok = FALSE for the failed assertion
from_immediate(index) ==
    IF index < i32_MAX
    THEN [ok |-> TRUE, inner |-> 0 - wrapping_add_1(index)]
    ELSE [ok |-> FALSE, inner |-> 0]

decode_without_sub(p) ==
    IF p < 0
    THEN [tag |-> "Immediate", idx |-> Abs(p)]
    ELSE [tag |-> "Register", idx |-> p % 65536]

\* ExecProvider::decode
decode(p) ==
    IF p < 0
    THEN [tag |-> "Immediate", idx |-> Abs(p) - 1]
    ELSE [tag |-> "Register", idx |-> p % 65536]

(***************************************************************************)
(* Register slices and frame regions                                       *)
(***************************************************************************)
\* ExecRegisterSlice::new
ExecRegisterSlice_new(first, len) == [first |-> first, len |-> len]

\* ExecRegisterSlice::empty
ExecRegisterSlice_empty == ExecRegisterSlice_new(0, 0)

\* ExecRegisterSlice::params
ExecRegisterSlice_params(len) == ExecRegisterSlice_new(0, len)

\* ExecRegisterSlice::iter, as the sequence of its registers
slice_iter(s) == [k \in 1..s.len |-> s.first + k - 1]

\* FrameRegion::new
FrameRegion_new(start, len) == [start |-> start, len |-> len]

\* FrameRegion::end
region_end(r) == r.start + r.len

\* FrameRegion::followed_by
followed_by(fst, snd) == region_end(fst) = snd.start

(***************************************************************************)
(* ValueStack                                                              *)
(***************************************************************************)
\* usize::checked_add, -1 standing for None
checked_add(a, b) == IF a + b > UsizeMax THEN -1 ELSE a + b

wrapping_add_extend_by(vs, delta) ==
    LET len == Len(vs)
        new_len == (len + delta) % (UsizeMax + 1)
    IN  IF new_len > maximum_len
        THEN [ok |-> FALSE, values |-> vs, region |-> FrameRegion_new(0, 0)]
        ELSE [ok |-> TRUE,
              values |-> vs \o [k \in 1..Min(delta, maximum_len - len) |-> 0],
              region |-> FrameRegion_new(len, delta)]

unchecked_extend_by(vs, delta) ==
    LET len == Len(vs)
    IN  IF len > maximum_len
        THEN [ok |-> FALSE, values |-> vs, region |-> FrameRegion_new(0, 0)]
        ELSE [ok |-> TRUE,
              values |-> vs \o [k \in 1..delta |-> 0],
              region |-> FrameRegion_new(len, delta)]

region_starts_below_top(vs, delta) ==
    LET len == Len(vs)
        new_len == checked_add(len, delta)
    IN  IF new_len = -1 \/ new_len > maximum_len
        THEN [ok |-> FALSE, values |-> vs, region |-> FrameRegion_new(0, 0)]
        ELSE [ok |-> TRUE,
              values |-> vs \o [k \in 1..delta |-> 0],
              region |-> FrameRegion_new(Max(len - 1, 0), delta)]

\* ValueStack::extend_by
extend_by(vs, delta) ==
    LET len == Len(vs)
        new_len == checked_add(len, delta)
    IN  IF new_len = -1 \/ new_len > maximum_len
        THEN [ok |-> FALSE, values |-> vs, region |-> FrameRegion_new(0, 0)]
        ELSE [ok |-> TRUE,
              values |-> vs \o [k \in 1..delta |-> 0],
              region |-> FrameRegion_new(len, delta)]

truncate_to_delta(vs, delta) == SubSeq(vs, 1, Min(delta, Len(vs)))

shrink_keeps_cells(vs, delta) == vs

\* ValueStack::shrink_by
shrink_by(vs, delta) == SubSeq(vs, 1, Len(vs) - delta)

paired_regs_one_below(fst, snd) ==
    [fst |-> [base |-> fst.start, len |-> fst.len],
     snd |-> [base |-> fst.start + fst.len - 1,
              len  |-> region_end(snd) - (fst.start + fst.len)]]

\* ValueStack::paired_frame_regs: the two windows as (base, len) pairs
paired_frame_regs(fst, snd) ==
    [fst |-> [base |-> fst.start, len |-> fst.len],
     snd |-> [base |-> fst.start + fst.len,
              len  |-> region_end(snd) - (fst.start + fst.len)]]

\* ValueStack::frame_regs: the window of a region as a (base, len) pair
frame_regs(region) == [base |-> region.start, len |-> region.len]

\* StackFrameRegisters::get
regs_get(vs, regs, register) == vs[regs.base + register + 1]

\* StackFrameRegisters::load_provider
load_provider(vs, regs, provider) ==
    LET d == decode(provider)
    IN  IF d.tag = "Register"
        THEN regs_get(vs, regs, d.idx)
        ELSE resolve_const(d.idx)

(***************************************************************************)
(* FrameStack                                                              *)
(***************************************************************************)
\* StackFrame as pushed by FrameStack::push_frame
StackFrame(region, results, func) ==
    [region |-> region, results |-> results, func_body |-> func]

\* FrameStack::push_frame
push_frame(fs, region, results, func) ==
    IF Len(fs) >= maximum_recursion_depth
    THEN [ok |-> FALSE, frames |-> fs]
    ELSE [ok |-> TRUE, frames |-> Append(fs, StackFrame(region, results, func))]

\* FrameStack::last_frame
last_frame(fs) == fs[Len(fs)]

\* FrameStack::pop_frame, the remaining frames
pop_frame(fs) == SubSeq(fs, 1, Len(fs) - 1)

(***************************************************************************)
(* Inputs of the Stack operations                                          *)
(***************************************************************************)
\* a Wasm function: the register count of its body and its signature
WasmFunc(len_regs, len_params, len_results) ==
    [len_regs |-> len_regs, len_params |-> len_params, len_results |-> len_results]

\* the Wasm functions of the store; the last one does not fit the value stack
WasmFuncs ==
    {WasmFunc(0, 0, 0), WasmFunc(1, 1, 1), WasmFunc(2, 2, 1), WasmFunc(2, 1, 2),
     WasmFunc(maximum_len + 1, 0, 0)}

\* a host function: its signature
HostFunc(len_params, len_results) ==
    [len_params |-> len_params, len_results |-> len_results]

\* the host functions of the store
HostFuncs ==
    {HostFunc(0, 0), HostFunc(1, 0), HostFunc(0, 1), HostFunc(1, 1), HostFunc(1, 2)}

\* providers of validated bytecode for a frame with len registers
Providers(len) ==
    {from_register(r) : r \in 0..(len - 1)}
        \cup {from_immediate(c).inner : c \in 0..(Len(ConstPool) - 1)}

\* register slices of length n of validated bytecode for a frame with len registers
Slices(len, n) ==
    IF n = 0 THEN {ExecRegisterSlice_empty}
    ELSE {ExecRegisterSlice_new(f, n) : f \in 0..(len - n)}

\* the record kept of the last Stack operation
\* (pv, pf: the value stack and the frame stack the operation started from)
Last(op, status, n, rs, ps, hv) ==
    [op |-> op, status |-> status, n |-> n, rs |-> rs, ps |-> ps, hv |-> hv,
     rg |-> FrameRegion_new(0, 0), pv |-> values, pf |-> frames]

\* the record kept of Stack::init
\* (pv, pf: the stacks after Stack::reset; left: how many cells and frames the
\* earlier execution had left behind)
LastInit(status, n, hv) ==
    [op |-> "init", status |-> status, n |-> n, rs |-> ExecRegisterSlice_empty,
     ps |-> <<>>, hv |-> hv, rg |-> FrameRegion_new(0, 0), pv |-> <<>>, pf |-> <<>>,
     left |-> [values |-> Len(values), frames |-> Len(frames)]]

(***************************************************************************)
(* Stack operations                                                        *)
(***************************************************************************)
\* the cells written when the k-th of n values goes to register dst[k] of window regs
WriteRegs(vs, regs, dst, vals) ==
    [i \in 1..Len(vs) |->
        IF \E k \in 1..Len(dst) : k <= Len(vals) /\ i = regs.base + dst[k] + 1
        THEN vals[CHOOSE k \in 1..Len(dst) :
                    /\ k <= Len(vals)
                    /\ i = regs.base + dst[k] + 1
                    /\ \A j \in (k + 1)..Min(Len(dst), Len(vals)) :
                          i # regs.base + dst[j] + 1]
        ELSE vs[i]]

reversed_copy_args(vs, caller_regs, args) ==
    [k \in 1..Len(args) |-> load_provider(vs, caller_regs, args[Len(args) + 1 - k])]

\* Stack::call_wasm, the values of the argument providers read from the caller
copy_args(vs, caller_regs, args) ==
    [k \in 1..Len(args) |-> load_provider(vs, caller_regs, args[k])]

\* Stack::return_wasm, the values of the returned providers read from the callee
copy_returned(vs, callee_regs, returned) ==
    [k \in 1..Len(returned) |-> load_provider(vs, callee_regs, returned[k])]

clear_keeps_cells(vs) == vs

\* ValueStack::clear
clear(vs) == <<>>

\* FrameStack::clear
frames_clear(fs) == <<>>

\* Stack::init, Stack::reset included
init(func, params) ==
    /\ phase \in {"idle", "trapped", "finalized", "host_returned"}
    /\ Len(params) <= func.len_regs
    /\ LET len_regs == func.len_regs
           ext == extend_by(clear(values), len_regs)
           psh == push_frame(frames_clear(frames), ext.region, ExecRegisterSlice_empty,
                             func)
           dst == slice_iter(ExecRegisterSlice_params(len_regs))
       IN  IF ~ext.ok
           THEN /\ values' = ext.values
                /\ frames' = frames_clear(frames)
                /\ phase' = "trapped"
                /\ last' = LastInit("trap", len_regs, params)
           ELSE IF ~psh.ok
           THEN /\ values' = ext.values
                /\ frames' = psh.frames
                /\ phase' = "trapped"
                /\ last' = LastInit("trap", len_regs, params)
           ELSE /\ values' = WriteRegs(ext.values, frame_regs(ext.region), dst, params)
                /\ frames' = psh.frames
                /\ phase' = "running"
                /\ last' = LastInit("ok", len_regs, params)
    /\ UNCHANGED <<build_vars, copy_vars, engine_vars>>

\* Stack::call_wasm
call_wasm(func, results, args) ==
    /\ phase = "running"
    /\ Len(frames) > 0
    /\ Len(args) <= func.len_regs
    /\ LET len == func.len_regs
           ext == extend_by(values, len)
           caller == last_frame(frames)
           psh == push_frame(frames, ext.region, results, func)
           pair == paired_frame_regs(caller.region, ext.region)
           params == slice_iter(ExecRegisterSlice_params(Len(args)))
           loaded == copy_args(ext.values, pair.fst, args)
       IN  IF ~ext.ok
           THEN /\ values' = ext.values
                /\ frames' = frames
                /\ phase' = "trapped"
                /\ last' = Last("call_wasm", "trap_values", len, ExecRegisterSlice_empty, <<>>, <<>>)
           ELSE IF ~psh.ok
           THEN /\ values' = ext.values
                /\ frames' = psh.frames
                /\ phase' = "trapped"
                /\ last' = Last("call_wasm", "trap_frames", len, ExecRegisterSlice_empty, <<>>, <<>>)
           ELSE /\ values' = WriteRegs(ext.values, pair.snd, params, loaded)
                /\ frames' = psh.frames
                /\ phase' = "running"
                /\ last' = Last("call_wasm", "ok", len, results, args, <<>>)
    /\ UNCHANGED <<build_vars, copy_vars, engine_vars>>

\* Stack::return_wasm
return_wasm(returned) ==
    /\ phase = "running"
    /\ Len(frames) > 0
    /\ IF Len(frames) = 1
       THEN /\ Len(returned) = last_frame(frames).func_body.len_results
            /\ values' = values
            /\ frames' = frames
            /\ phase' = "returned"
            /\ last' = Last("return_wasm", "none", 0, ExecRegisterSlice_empty, returned, <<>>)
       ELSE LET callee == last_frame(frames)
                rest == pop_frame(frames)
                caller == last_frame(rest)
                results == callee.results
                pair == paired_frame_regs(caller.region, callee.region)
                loaded == copy_returned(values, pair.snd, returned)
                written == WriteRegs(values, pair.fst, slice_iter(results), loaded)
            IN  /\ results.len = Len(returned)
                /\ values' = shrink_by(written, callee.region.len)
                /\ frames' = rest
                /\ phase' = "running"
                /\ last' = Last("return_wasm", "some", callee.region.len, results, returned, <<>>)
    /\ UNCHANGED <<build_vars, copy_vars, engine_vars>>

\* Stack::finalize
finalize(returned) ==
    /\ phase = "returned"
    /\ Len(frames) = 1
    /\ Len(returned) = last_frame(frames).func_body.len_results
    /\ returned = last.ps
    /\ LET root == last_frame(frames)
           root_regs == frame_regs(root.region)
           out == [k \in 1..Len(returned) |-> load_provider(values, root_regs, returned[k])]
       IN  /\ values' = values
           /\ frames' = pop_frame(frames)
           /\ phase' = "finalized"
           /\ last' = Last("finalize", "ok", 0, ExecRegisterSlice_empty, returned, out)
    /\ UNCHANGED <<build_vars, copy_vars, engine_vars>>

\* Stack::call_host_as_root, called with no frame on the frame stack; the host
\* function either traps or writes its results into the first len_results
\* registers of its window, from where they are fed to the caller
call_host_as_root(host_func, params, host_traps, host_out) ==
    /\ phase \in {"idle", "trapped", "finalized", "host_returned"}
    /\ Len(frames) = 0
    /\ Len(params) = host_func.len_params
    /\ Len(host_out) = host_func.len_results
    /\ LET len_params == host_func.len_params
           len_results == host_func.len_results
           max_inout == Max(len_params, len_results)
           ext == extend_by(values, max_inout)
           callee_regs == frame_regs(ext.region)
           fed == WriteRegs(ext.values, callee_regs,
                            slice_iter(ExecRegisterSlice_params(len_params)), params)
           called == WriteRegs(fed, callee_regs,
                               slice_iter(ExecRegisterSlice_params(len_results)), host_out)
       IN  IF ~ext.ok
           THEN /\ values' = ext.values
                /\ phase' = "trapped"
                /\ last' = Last("call_host_as_root", "trap_values", max_inout,
                                ExecRegisterSlice_empty, <<>>, <<>>)
           ELSE IF host_traps
           THEN /\ values' = fed
                /\ phase' = "trapped"
                /\ last' = Last("call_host_as_root", "trap_host", max_inout,
                                ExecRegisterSlice_empty, <<>>, params)
           ELSE /\ values' = called
                /\ phase' = "host_returned"
                /\ last' = Last("call_host_as_root", "ok", max_inout,
                                ExecRegisterSlice_empty, <<>>, host_out)
    /\ frames' = frames
    /\ UNCHANGED <<build_vars, copy_vars, engine_vars>>

\* Stack::call_host; the host function either traps or writes its results
\* into the first len_results registers of its window
call_host(host_func, results, args, host_traps, host_out) ==
    /\ phase = "running"
    /\ Len(frames) > 0
    /\ Len(args) = host_func.len_params
    /\ Len(host_out) = host_func.len_results
    /\ LET len_params == host_func.len_params
           len_results == host_func.len_results
           max_inout == Max(len_params, len_results)
           ext == extend_by(values, max_inout)
           caller == last_frame(frames)
           pair == paired_frame_regs(caller.region, ext.region)
           params == slice_iter(ExecRegisterSlice_params(len_params))
           loaded == [k \in 1..Len(args) |-> load_provider(ext.values, pair.fst, args[k])]
           fed == WriteRegs(ext.values, pair.snd, params, loaded)
           returned == slice_iter(ExecRegisterSlice_params(len_results))
           called == WriteRegs(fed, pair.snd, returned, host_out)
           got == [k \in 1..Min(results.len, len_results) |->
                      regs_get(called, pair.snd, returned[k])]
           written == WriteRegs(called, pair.fst, slice_iter(results), got)
       IN  IF ~ext.ok
           THEN /\ values' = ext.values
                /\ phase' = "trapped"
                /\ last' = Last("call_host", "trap_values", max_inout, ExecRegisterSlice_empty, <<>>, <<>>)
           ELSE IF host_traps
           THEN /\ values' = fed
                /\ phase' = "trapped"
                /\ last' = Last("call_host", "trap_host", max_inout, results, args, <<>>)
           ELSE /\ values' = shrink_by(written, max_inout)
                /\ phase' = "running"
                /\ last' = Last("call_host", "ok", max_inout, results, args, host_out)
    /\ frames' = frames
    /\ UNCHANGED <<build_vars, copy_vars, engine_vars>>

\* StackFrameRegisters::set on the window of the executing frame (Stack::frame_at)
set_register(register, new_value) ==
    /\ phase = "running"
    /\ Len(frames) > 0
    /\ LET top == last_frame(frames)
           regs == frame_regs(top.region)
       IN  /\ register < regs.len
           /\ values[regs.base + register + 1] # new_value
           /\ values' = WriteRegs(values, regs, <<register>>, <<new_value>>)
    /\ frames' = frames
    /\ phase' = phase
    /\ last' = Last("set", "ok", register, ExecRegisterSlice_empty, <<>>, <<new_value>>)
    /\ UNCHANGED <<build_vars, copy_vars, engine_vars>>

\* register count of the window of the executing frame
TopLen == IF Len(frames) = 0 THEN 0 ELSE last_frame(frames).region.len

NoLast ==
    [op |-> "new", status |-> "ok", n |-> 0, rs |-> ExecRegisterSlice_empty,
     ps |-> <<>>, hv |-> <<>>, rg |-> FrameRegion_new(0, 0), pv |-> <<>>, pf |-> <<>>]

\* the builder and the copy analyzer at rest
BuildIdle ==
    /\ insts = <<>>
    /\ labels = <<>>
    /\ bstate = "idle"
    /\ blast = [op |-> "new", label |-> 0, pc |-> 0,
                before |-> [pinned |-> FALSE, instr |-> 0], first |-> <<>>, ir |-> <<>>]
    /\ exec = <<>>

CopyIdle ==
    /\ cp_results = ExecRegisterSlice_empty
    /\ cp_inputs = <<>>
    /\ arena = <<>>
    /\ cp_out = [tag |-> "idle"]
    /\ cp_pc = "idle"

\* the engine resources at rest: empty pools, no function compiled
NoRes ==
    [const_pool |-> <<>>,
     provider_pool |-> [dedup |-> {}, providers |-> <<>>],
     code_map |-> <<>>]

NoELast == [op |-> "new", allocs |-> {}, hit |-> FALSE]

\* no function is being translated
NoTranslation ==
    [pc |-> "idle", func |-> [params |-> 0, results |-> 0, body |-> <<>>], at |-> 0,
     stack |-> <<>>, control |-> <<>>, insts |-> <<>>, labels |-> <<>>,
     reachable |-> FALSE, events |-> <<>>]

\* no control frame is under inspection
NoFrame == [pc |-> "idle"]

EngineIdle ==
    /\ tr = NoTranslation
    /\ cf = NoFrame
    /\ res = NoRes
    /\ elast = NoELast
    /\ enc = [pc |-> "idle"]
    /\ runs = <<>>
    /\ lock = 0
    /\ threads = <<>>

\* Stack::new
Init ==
    /\ values = <<>>
    /\ frames = <<>>
    /\ phase = "idle"
    /\ last = NoLast
    /\ BuildIdle
    /\ CopyIdle
    /\ EngineIdle

\* the number of providers of the Return instruction of the executing frame:
\* the result count of the root function, else the length of the result slice
\* the caller asked for
ReturnLen ==
    IF Len(frames) = 0 THEN 0
    ELSE IF Len(frames) = 1 THEN last_frame(frames).func_body.len_results
    ELSE last_frame(frames).results.len

Next ==
    \/ \E func \in WasmFuncs :
         \E params \in SeqsOf(Vals, func.len_params, func.len_params) :
           init(func, params)
    \/ \E func \in WasmFuncs :
         \E results \in Slices(TopLen, func.len_results) :
           \E args \in SeqsOf(Providers(TopLen), func.len_params, func.len_params) :
             call_wasm(func, results, args)
    \/ \E returned \in SeqsOf(Providers(TopLen), ReturnLen, ReturnLen) :
         return_wasm(returned)
    \/ \E returned \in {last.ps} :
         finalize(returned)
    \/ \E host_func \in HostFuncs :
         \E results \in Slices(TopLen, host_func.len_results) :
           \E args \in SeqsOf(Providers(TopLen), host_func.len_params, host_func.len_params) :
             \E host_traps \in BOOLEAN :
               \E host_out \in SeqsOf(Vals, host_func.len_results, host_func.len_results) :
                 call_host(host_func, results, args, host_traps, host_out)
    \/ \E register \in 0..(maximum_len - 1), new_value \in Vals :
         set_register(register, new_value)
    \/ \E host_func \in HostFuncs :
         \E params \in SeqsOf(Vals, host_func.len_params, host_func.len_params) :
           \E host_traps \in BOOLEAN :
             \E host_out \in SeqsOf(Vals, host_func.len_results, host_func.len_results) :
               call_host_as_root(host_func, params, host_traps, host_out)

Spec == Init /\ [][Next]_vars

(***************************************************************************)
(* The ValueStack on its own                                               *)
(***************************************************************************)
\* ValueStack::extend_by called with any delta
do_extend_by(delta) ==
    /\ phase = "vs"
    /\ LET ext == extend_by(values, delta)
       IN  /\ values' = ext.values
           /\ last' = [Last("extend_by", IF ext.ok THEN "ok" ELSE "trap", delta,
                            ExecRegisterSlice_empty, <<>>, <<>>)
                         EXCEPT !.rg = ext.region]
    /\ UNCHANGED <<frames, phase, build_vars, copy_vars, engine_vars>>

\* ValueStack::shrink_by
do_shrink_by(delta) ==
    /\ phase = "vs"
    /\ delta <= Len(values)
    /\ values' = shrink_by(values, delta)
    /\ last' = Last("shrink_by", "ok", delta, ExecRegisterSlice_empty, <<>>, <<>>)
    /\ UNCHANGED <<frames, phase, build_vars, copy_vars, engine_vars>>

\* ValueStack::clear
do_clear ==
    /\ phase = "vs"
    /\ values' = clear(values)
    /\ last' = Last("clear", "ok", 0, ExecRegisterSlice_empty, <<>>, <<>>)
    /\ UNCHANGED <<frames, phase, build_vars, copy_vars, engine_vars>>

\* a write through ValueStack::frame_regs
do_set(index, new_value) ==
    /\ phase = "vs"
    /\ index < Len(values)
    /\ values[index + 1] # new_value
    /\ values' = [values EXCEPT ![index + 1] = new_value]
    /\ last' = Last("set", "ok", index, ExecRegisterSlice_empty, <<>>, <<new_value>>)
    /\ UNCHANGED <<frames, phase, build_vars, copy_vars, engine_vars>>

\* ValueStack::new
InitValueStack ==
    /\ values = <<>>
    /\ frames = <<>>
    /\ phase = "vs"
    /\ last = NoLast
    /\ BuildIdle
    /\ CopyIdle
    /\ EngineIdle

NextValueStack ==
    \/ \E delta \in 0..UsizeMax : do_extend_by(delta)
    \/ \E delta \in 0..maximum_len : do_shrink_by(delta)
    \/ do_clear
    \/ \E index \in 0..(maximum_len - 1), new_value \in Vals : do_set(index, new_value)

SpecValueStack == InitValueStack /\ [][NextValueStack]_vars

(***************************************************************************)
(* Claims about the execution stack                                        *)
(***************************************************************************)
\* n cells holding zero
Zeros(n) == [k \in 1..n |-> 0]

\* the value of a provider in the window of region over the cells vs, read off
\* the encoding: p >= 0 names register p, p < 0 names constant number -p
ValueOf(vs, region, p) ==
    IF p >= 0 THEN vs[region.start + p + 1] ELSE ConstPool[0 - p]

\* C1: in every reachable state the frame stack holds at most
\* maximum_recursion_depth frames and the value stack at most maximum_len cells.
C1_StackBounds ==
    /\ Len(frames) <= maximum_recursion_depth
    /\ Len(values) <= maximum_len

\* a step failed with both stacks filled to their limits
C1_Witness ==
    /\ phase = "trapped"
    /\ last.op = "call_wasm"
    /\ Len(frames) = maximum_recursion_depth
    /\ Len(values) = maximum_len

\* C2: after a top-level call returned normally (return_wasm yielded None and
\* finalize ran) the frame stack and the value stack have length zero.
C2_Claim ==
    phase = "finalized" => (Len(frames) = 0 /\ Len(values) = 0)

\* C3: when an execution ends in a trap raised inside call_wasm or by the host
\* function inside call_host, the stacks are back in the state before the call:
\* the region allocated by the failing call is not left on the value stack.
C3_Claim ==
    (phase = "trapped" /\ last.op \in {"call_wasm", "call_host"})
        => (values = last.pv /\ frames = last.pf)

\* C4: extend_by(delta) fails exactly when len + delta exceeds maximum_len (or
\* the integer range) and then leaves the stack unchanged; otherwise it appends
\* exactly delta zero cells and returns the region (old length, delta).
C4_ExtendBy ==
    last.op = "extend_by" =>
        LET len == Len(last.pv)
            delta == last.n
        IN  /\ (last.status = "trap") <=> (len + delta > maximum_len)
            /\ last.status = "trap" => values = last.pv
            /\ last.status = "ok" =>
                  /\ values = last.pv \o Zeros(delta)
                  /\ last.rg = [start |-> len, len |-> delta]

\* extend_by failed because len + delta left the integer range, on a stack
\* holding a non-zero cell
C4_Witness ==
    /\ phase = "vs"
    /\ last.op = "extend_by"
    /\ last.status = "trap"
    /\ Len(last.pv) + last.n > UsizeMax
    /\ \E i \in 1..Len(values) : values[i] # 0

\* C5: a successful call_wasm grows the value stack by the callee's register
\* count, pushes one frame with that window and the caller-specified results,
\* and sets callee register k to the k-th argument provider evaluated in the
\* caller's window; every other callee register is zero.
C5_CallWasm ==
    (last.op = "call_wasm" /\ last.status = "ok") =>
        LET old == Len(last.pv)
            caller == last.pf[Len(last.pf)]
        IN  /\ Len(values) = old + last.n
            /\ Len(frames) = Len(last.pf) + 1
            /\ SubSeq(frames, 1, Len(last.pf)) = last.pf
            /\ frames[Len(frames)].region = [start |-> old, len |-> last.n]
            /\ frames[Len(frames)].results = last.rs
            /\ \A k \in 1..last.n :
                  values[old + k] =
                      IF k <= Len(last.ps)
                      THEN ValueOf(last.pv, caller.region, last.ps[k])
                      ELSE 0

\* a call passed a non-zero register and a constant, in this order, to a callee
C5_Witness ==
    /\ last.op = "call_wasm"
    /\ last.status = "ok"
    /\ Len(last.ps) = 2
    /\ last.ps[1] >= 0
    /\ last.ps[2] < 0
    /\ values[Len(last.pv) + 1] # values[Len(last.pv) + 2]

\* C6: return_wasm with at least two frames pops the callee frame, writes the
\* k-th returned provider, evaluated in the callee's window, into the k-th
\* register of the result slice given at call time and shrinks the value stack
\* by the callee's region, restoring the length and the frame count from before
\* the call; with only the root frame it returns None and changes nothing.
C6_ReturnWasm ==
    last.op = "return_wasm" =>
        IF Len(last.pf) = 1
        THEN /\ last.status = "none"
             /\ values = last.pv
             /\ frames = last.pf
        ELSE LET callee == last.pf[Len(last.pf)]
                 caller == last.pf[Len(last.pf) - 1]
             IN  /\ last.status = "some"
                 /\ frames = SubSeq(last.pf, 1, Len(last.pf) - 1)
                 /\ Len(values) = Len(last.pv) - callee.region.len
                 /\ Len(values) = callee.region.start
                 /\ \A k \in 1..callee.results.len :
                       values[caller.region.start + callee.results.first + k] =
                           ValueOf(last.pv, callee.region, last.ps[k])

\* a callee returned a non-zero register value into the second caller register
C6_Witness ==
    /\ last.op = "return_wasm"
    /\ last.status = "some"
    /\ Len(last.ps) = 1
    /\ last.ps[1] >= 0
    /\ last.pf[Len(last.pf)].results.first = 1
    /\ last.pv[last.pf[Len(last.pf) - 1].region.start + 2] = 0
    /\ values[last.pf[Len(last.pf) - 1].region.start + 2] # 0

\* C25: init starts every execution from a clean stack, whatever an earlier
\* execution left behind: after a successful init the frame stack holds
\* exactly the root frame with an empty result slice, the value-stack length
\* is the root function's register count, registers 0..len_params hold the
\* given parameters and every other root register is zero.
C25_InitClean ==
    (last.op = "init" /\ last.status = "ok") =>
        /\ Len(frames) = 1
        /\ frames[1].region = FrameRegion_new(0, last.n)
        /\ frames[1].results = ExecRegisterSlice_empty
        /\ Len(values) = last.n
        /\ \A k \in 1..last.n :
              values[k] = IF k <= Len(last.hv) THEN last.hv[k] ELSE 0

\* init ran on a stack an execution that trapped inside a nested call had
\* left with two frames and more cells than the new root needs, for a root
\* function with a parameter and a further register
C25_Witness ==
    /\ last.op = "init"
    /\ last.status = "ok"
    /\ phase = "running"
    /\ last.left.frames = 2
    /\ last.left.values > 2
    /\ Len(last.hv) = 1
    /\ last.n = 2
    /\ values[1] # 0

\* C27 as stated: call_host_as_root leaves the value stack as it found it:
\* when it returns, successfully or with a host trap, the value-stack length
\* is the length before the call, so consecutive root host calls on one stack
\* never fail with StackOverflow because of cells left by earlier calls.
C27_Claim ==
    last.op = "call_host_as_root" =>
        /\ last.status \in {"ok", "trap_host"} => Len(values) = Len(last.pv)
        /\ last.status = "trap_values" => last.n > maximum_len

\* the two regions the last operation asked the paired view of, when it did:
\* call_wasm and call_host pair the caller's region with the region just
\* allocated, return_wasm the caller's region with the callee's
PairedFst ==
    IF last.op = "return_wasm"
    THEN last.pf[Len(last.pf) - 1].region
    ELSE last.pf[Len(last.pf)].region

PairedSnd ==
    IF last.op = "return_wasm"
    THEN last.pf[Len(last.pf)].region
    ELSE FrameRegion_new(Len(last.pv), last.n)

AskedPaired ==
    \/ last.op = "call_wasm" /\ last.status = "ok"
    \/ last.op = "call_host" /\ last.status \in {"ok", "trap_host"}
    \/ last.op = "return_wasm" /\ last.status = "some"

\* the value-stack length when the paired view was asked for
PairedTop == IF last.op = "return_wasm" THEN Len(last.pv) ELSE Len(last.pv) + last.n

\* every frame's region starts where the previous frame's region ends, and
\* the top frame's region ends at the value-stack length
FramesTile ==
    Len(frames) >= 1 =>
        /\ region_end(frames[Len(frames)].region) = Len(values)
        /\ \A k \in 2..Len(frames) :
              frames[k].region.start = region_end(frames[k - 1].region)

\* C28 as stated: whenever call_wasm, return_wasm or call_host asks for the
\* paired view of two regions, the first is immediately followed by the second
\* and the second ends at the value-stack top; and in every reachable state
\* with at least one frame the top frame's region ends at the value-stack
\* length and each frame's region starts where the previous one ends.
C28_Claim ==
    /\ AskedPaired =>
          /\ followed_by(PairedFst, PairedSnd)
          /\ region_end(PairedSnd) = PairedTop
    /\ FramesTile

\* the two parts of C28 apart: the paired views, and the frames while no
\* trap has ended the execution
C28_PairedViews ==
    AskedPaired =>
        /\ followed_by(PairedFst, PairedSnd)
        /\ region_end(PairedSnd) = PairedTop

C28_WhileRunning == phase # "trapped" => FramesTile

\* the value-stack cells (from 1) of the caller registers named by the result
\* slice recorded in the frame of the callee that returned
ResultCells ==
    LET callee == last.pf[Len(last.pf)]
        caller == last.pf[Len(last.pf) - 1]
    IN  {caller.region.start + callee.results.first + k : k \in 1..callee.results.len}

\* C30: crossing a call boundary touches only the intended cells: call_wasm
\* changes no value-stack cell below the new callee window, and return_wasm
\* changes only the caller registers named by the result slice recorded in the
\* callee's frame, leaving every other remaining cell unchanged.
C30_CallBoundary ==
    /\ last.op = "call_wasm" =>
          /\ Len(values) >= Len(last.pv)
          /\ \A i \in 1..Len(last.pv) : values[i] = last.pv[i]
    /\ (last.op = "return_wasm" /\ last.status = "some") =>
          \A i \in 1..Len(values) : i \in ResultCells \/ values[i] = last.pv[i]

\* the innermost of three frames returned a value into the second register of
\* its caller: that cell changed, the caller's first register and the root's
\* register kept their non-zero values
C30_Witness ==
    /\ last.op = "return_wasm"
    /\ last.status = "some"
    /\ Len(last.pf) = 3
    /\ ResultCells = {3}
    /\ values[3] # last.pv[3]
    /\ values[1] # 0 /\ values[2] # 0
    /\ values[1] = last.pv[1] /\ values[2] = last.pv[2]

\* C16: call_host hands the host function a window of exactly
\* max(param_count, result_count) cells on top of the value stack with the
\* arguments in its registers 0..param_count (the stack a trapping host
\* function leaves behind shows that window); after a successful host return
\* host result k is in the k-th caller result register, the window is removed
\* (the value stack is as long as before the call, changed only in the result
\* registers), and the frame stack is the one before the call.
C16_CallHost ==
    (last.op = "call_host" /\ last.status \in {"trap_host", "ok"}) =>
        LET caller == last.pf[Len(last.pf)]
            before == Len(last.pv)
        IN  /\ frames = last.pf
            /\ last.status = "trap_host" =>
                 /\ Len(values) = before + Max(Len(last.ps), last.rs.len)
                 /\ \A i \in 1..before : values[i] = last.pv[i]
                 /\ \A k \in 1..Len(last.ps) :
                       values[before + k] = ValueOf(last.pv, caller.region, last.ps[k])
            /\ last.status = "ok" =>
                 /\ Len(values) = before
                 /\ \A k \in 1..Len(last.hv) :
                       values[caller.region.start + last.rs.first + k] = last.hv[k]
                 /\ \A i \in 1..before :
                       (\A k \in 1..Len(last.hv) :
                            i # caller.region.start + last.rs.first + k)
                           => values[i] = last.pv[i]

\* a host function with one parameter and two results returned two different
\* values into the caller
C16_Witness ==
    /\ last.op = "call_host"
    /\ last.status = "ok"
    /\ Len(last.ps) = 1
    /\ Len(last.hv) = 2
    /\ last.hv[1] # last.hv[2]
    /\ values # last.pv

\* the region of a frame lies inside the value stack
RegionInside(region) == region_end(region) <= Len(values)

\* two regions share no cell
RegionsDisjoint(a, b) == region_end(a) <= b.start \/ region_end(b) <= a.start

\* C17: the regions of the frames on the frame stack are pairwise disjoint and
\* each lies inside the value stack, in every reachable state.
C17_FrameRegions ==
    /\ \A i \in 1..Len(frames) : RegionInside(frames[i].region)
    /\ \A i, j \in 1..Len(frames) :
          i # j => RegionsDisjoint(frames[i].region, frames[j].region)

\* three frames with non-empty regions are on the frame stack
C17_Witness ==
    /\ Len(frames) = 3
    /\ \A i \in 1..Len(frames) : frames[i].region.len > 0

(***************************************************************************)
(* The copy analyzer of the instruction builder                            *)
(***************************************************************************)
\* longest results / inputs handed to the copy analyzer
MaxCopyLen == 4
\* largest register index among the inputs
MaxIrReg == 3
\* largest first register of the results slice
MaxFirst == 1

\* IrProvider::Register
IrReg(reg) == [tag |-> "Register", reg |-> reg, value |-> 0]

\* IrProvider::Immediate
IrImm(value) == [tag |-> "Immediate", reg |-> 0, value |-> value]

\* the providers of the translated function
IrProviders == {IrReg(r) : r \in 0..MaxIrReg} \cup {IrImm(7)}

\* IrRegisterSlice::new
IrRegisterSlice_new(first, len) == [first |-> first, len |-> len]

sub_slice_from_start(slice, from, to) ==
    IF from <= to /\ to <= slice.len
    THEN IrRegisterSlice_new(slice.first, to - from)
    ELSE IrRegisterSlice_new(0, -1)

\* IrRegisterSlice::sub_slice, [first |-> 0, len |-> -1] standing for None
sub_slice(slice, from, to) ==
    IF from <= to /\ to <= slice.len
    THEN IrRegisterSlice_new(slice.first + from, to - from)
    ELSE IrRegisterSlice_new(0, -1)

\* ProviderSliceArena::alloc
arena_alloc(ar, providers) ==
    [arena |-> ar \o providers,
     slice |-> [first |-> Len(ar), len |-> Len(providers)]]

\* ProviderSliceArena::resolve
arena_resolve(ar, slice) == SubSeq(ar, slice.first + 1, slice.first + slice.len)

\* IrProviderSlice::skip
slice_skip(slice, n) ==
    [first |-> slice.first + Min(n, slice.len), len |-> slice.len - Min(n, slice.len)]

\* IrProviderSlice::take
slice_take(slice, n) == [first |-> slice.first, len |-> Min(n, slice.len)]

immediate_is_no_copy(result, input) ==
    IF input.tag = "Register" THEN result # input.reg ELSE FALSE

\* TrueCopies::true_copies_iter, the filter
is_true_copy(result, input) ==
    IF input.tag = "Register" THEN result # input.reg ELSE TRUE

\* TrueCopies::true_copies_iter
true_copies_iter(results, inputs) ==
    LET n == Min(results.len, Len(inputs))
        zipped == [k \in 1..n |->
                     [nth |-> k - 1, result |-> results.first + k - 1, input |-> inputs[k]]]
        keep(item) == is_true_copy(item.result, item.input)
    IN  SelectSeq(zipped, keep)

\* TrueCopies::count_true_copies
count_true_copies(results, inputs) == Len(true_copies_iter(results, inputs))

last_index_exclusive_missing(copies) ==
    LET rest == Tail(copies)
    IN  [first_index |-> copies[1].nth, last_index |-> rest[Len(rest)].nth]

\* TrueCopies::analyze, (first_index, last_index) of the true copies
first_last_index(copies) ==
    LET rest == Tail(copies)
    IN  [first_index |-> copies[1].nth, last_index |-> rest[Len(rest)].nth + 1]

\* the variants of TrueCopies
TrueCopies_None ==
    [tag |-> "None", result |-> 0, input |-> IrReg(0),
     results |-> IrRegisterSlice_new(0, 0), inputs |-> [first |-> 0, len |-> 0]]
TrueCopies_Single(result, input) ==
    [tag |-> "Single", result |-> result, input |-> input,
     results |-> IrRegisterSlice_new(0, 0), inputs |-> [first |-> 0, len |-> 0]]
TrueCopies_Many(results, inputs) ==
    [tag |-> "Many", result |-> 0, input |-> IrReg(0),
     results |-> results, inputs |-> inputs]

\* TrueCopies::analyze
analyze(ar, results, inputs) ==
    LET copies == true_copies_iter(results, inputs)
        count == count_true_copies(results, inputs)
    IN  IF count = 0
        THEN [out |-> TrueCopies_None, arena |-> ar]
        ELSE IF count = 1
        THEN [out |-> TrueCopies_Single(copies[1].result, copies[1].input), arena |-> ar]
        ELSE LET fl == first_last_index(copies)
                 len == fl.last_index - fl.first_index
                 new_inputs == SubSeq(inputs, fl.first_index + 1,
                                      Min(fl.first_index + len, Len(inputs)))
                 new_results == sub_slice(results, fl.first_index, fl.last_index)
                 al == arena_alloc(ar, new_inputs)
             IN  [out |-> TrueCopies_Many(new_results, al.slice), arena |-> al.arena]

\* TrueCopies::analyze_slice
analyze_slice(ar, results, inputs) ==
    LET slice == arena_resolve(ar, inputs)
        len_results == results.len
        copies == true_copies_iter(results, slice)
        count == count_true_copies(results, slice)
    IN  IF count = 0
        THEN [out |-> TrueCopies_None, arena |-> ar]
        ELSE IF count = 1
        THEN [out |-> TrueCopies_Single(copies[1].result, copies[1].input), arena |-> ar]
        ELSE IF count = len_results
        THEN [out |-> TrueCopies_Many(results, inputs), arena |-> ar]
        ELSE LET fl == first_last_index(copies)
                 len == fl.last_index - fl.first_index
                 new_inputs == slice_take(slice_skip(inputs, fl.first_index), len)
                 new_results == sub_slice(results, fl.first_index, fl.last_index)
             IN  [out |-> TrueCopies_Many(new_results, new_inputs), arena |-> ar]

\* a call of TrueCopies::analyze (InstructionsBuilder::push_copy_many_instr)
do_analyze ==
    /\ cp_pc = "start"
    /\ LET r == analyze(arena, cp_results, cp_inputs)
       IN  /\ cp_out' = r.out
           /\ arena' = r.arena
    /\ cp_pc' = "analyze"
    /\ UNCHANGED <<cp_results, cp_inputs, stack_vars, build_vars, engine_vars>>

\* a call of TrueCopies::analyze_slice on inputs allocated in the arena
\* (InstructionsBuilder::push_br, push_br_nez)
do_analyze_slice ==
    /\ cp_pc = "start"
    /\ LET al == arena_alloc(arena, cp_inputs)
           r == analyze_slice(al.arena, cp_results, al.slice)
       IN  /\ cp_out' = r.out
           /\ arena' = r.arena
    /\ cp_pc' = "analyze_slice"
    /\ UNCHANGED <<cp_results, cp_inputs, stack_vars, build_vars, engine_vars>>

\* IrInstruction::Br
IrBr(target) == [op |-> "Br", target |-> target]

\* IrInstruction::BrCopy
IrBrCopy(target, result, returned) ==
    [op |-> "BrCopy", target |-> target, result |-> result, returned |-> returned]

\* IrInstruction::BrCopyImm
IrBrCopyImm(target, result, returned) ==
    [op |-> "BrCopyImm", target |-> target, result |-> result, returned |-> returned]

\* IrInstruction::BrCopyMulti
IrBrCopyMulti(target, results, returned) ==
    [op |-> "BrCopyMulti", target |-> target, results |-> results, returned |-> returned]

\* InstructionsBuilder::push_br, the instructions pushed for the outcome of
\* the copy analyzer
br_insts(target, out) ==
    IF out.tag = "None"
    THEN <<IrBr(target)>>
    ELSE IF out.tag = "Single"
    THEN IF out.input.tag = "Register"
         THEN <<IrBrCopy(target, out.result, out.input.reg)>>
         ELSE <<IrBrCopyImm(target, out.result, out.input.value)>>
    ELSE <<IrBrCopyMulti(target, out.results, out.inputs)>>

\* a call of InstructionsBuilder::push_br on inputs allocated in the arena
push_br(target) ==
    /\ cp_pc = "start"
    /\ LET al == arena_alloc(arena, cp_inputs)
           r == analyze_slice(al.arena, cp_results, al.slice)
       IN  /\ cp_out' = r.out
           /\ arena' = r.arena
           /\ insts' = insts \o br_insts(target, r.out)
    /\ cp_pc' = "push_br"
    /\ UNCHANGED <<cp_results, cp_inputs, stack_vars, labels, bstate, blast, exec,
                   engine_vars>>

\* the labels a branch is pushed for
BrTargets == {0, 1}

\* any results and inputs of equal length, on an arena already in use
InitCopy ==
    /\ values = <<>>
    /\ frames = <<>>
    /\ phase = "idle"
    /\ last = NoLast
    /\ BuildIdle
    /\ EngineIdle
    /\ cp_pc = "start"
    /\ cp_out = [tag |-> "idle"]
    /\ arena \in {<<>>, <<IrImm(7)>>}
    /\ \E len \in 0..MaxCopyLen :
         /\ cp_results \in {IrRegisterSlice_new(first, len) : first \in 0..MaxFirst}
         /\ cp_inputs \in [1..len -> IrProviders]

NextCopy ==
    \/ do_analyze
    \/ do_analyze_slice
    \/ \E target \in BrTargets : push_br(target)

SpecCopy == InitCopy /\ [][NextCopy]_vars

(***************************************************************************)
(* Claims about the copy analyzer                                          *)
(***************************************************************************)
\* the positions k (from 1) of the true copies: all but those where inputs[k]
\* is the register results[k]
TruePositions ==
    {k \in 1..Len(cp_inputs) :
        ~(cp_inputs[k].tag = "Register" /\ cp_inputs[k].reg = cp_results.first + k - 1)}

SetMin(S) == CHOOSE x \in S : \A y \in S : x <= y
SetMax(S) == CHOOSE x \in S : \A y \in S : y <= x

\* C7: the copy analyzer returns None iff there is no true copy and
\* Single{result, input} iff there is exactly one, carrying the pair of that
\* one position wherever it lies.
C7_NoneSingle ==
    cp_pc \in {"analyze", "analyze_slice"} =>
        /\ (cp_out.tag = "None") <=> (TruePositions = {})
        /\ (cp_out.tag = "Single") <=> (Cardinality(TruePositions) = 1)
        /\ Cardinality(TruePositions) = 1 =>
              LET k == SetMin(TruePositions)
              IN  /\ cp_out.result = cp_results.first + k - 1
                  /\ cp_out.input = cp_inputs[k]

\* the single true copy is an immediate in the middle of three positions
C7_Witness ==
    /\ cp_pc = "analyze_slice"
    /\ cp_out.tag = "Single"
    /\ Len(cp_inputs) = 3
    /\ TruePositions = {2}
    /\ cp_inputs[2].tag = "Immediate"

\* C8: with two or more true copies the analyzer returns Many{results', inputs'}
\* holding exactly the contiguous positions from the first to the last true
\* copy inclusive, no-op positions in between kept, with equal lengths.
C8_Many ==
    (cp_pc \in {"analyze", "analyze_slice"} /\ Cardinality(TruePositions) >= 2) =>
        LET lo == SetMin(TruePositions)
            hi == SetMax(TruePositions)
        IN  /\ cp_out.tag = "Many"
            /\ cp_out.results = [first |-> cp_results.first + lo - 1, len |-> hi - lo + 1]
            /\ cp_out.inputs.len = cp_out.results.len
            /\ arena_resolve(arena, cp_out.inputs) = SubSeq(cp_inputs, lo, hi)

\* (R0, R1, R2, R3) <- (R0, R3, R3, R3) gave (R1, R2) <- (R3, R3)
C8_Witness ==
    /\ cp_pc = "analyze"
    /\ cp_results = [first |-> 0, len |-> 4]
    /\ cp_inputs = <<IrReg(0), IrReg(3), IrReg(3), IrReg(3)>>
    /\ cp_out.tag = "Many"
    /\ cp_out.results = [first |-> 1, len |-> 2]
    /\ arena_resolve(arena, cp_out.inputs) = <<IrReg(3), IrReg(3)>>

\* the registers the results and inputs of the copy analyzer can name
CopyRegisters == 0..Max(MaxIrReg, MaxFirst + MaxCopyLen - 1)

\* register contents in which every register holds a value of its own, named
\* after the register; an immediate is a value of its own as well
OwnValues == [r \in CopyRegisters |-> IrReg(r)]

\* the value of a provider under the register contents regs
load_copy_input(regs, provider) ==
    IF provider.tag = "Register" THEN regs[provider.reg] ELSE provider

\* the execution of Copy / CopyImm
exec_copy(regs, result, input) ==
    [regs EXCEPT ![result] = load_copy_input(regs, input)]

\* the execution of CopyMany, one copy after the other in slice order
exec_copy_many(regs, results, inputs) ==
    LET after[k \in 0..results.len] ==
            IF k = 0
            THEN regs
            ELSE exec_copy(after[k - 1], results.first + k - 1, inputs[k])
    IN  after[results.len]

\* the execution of CopyMany, all inputs read before any result is written
exec_copy_many_at_once(regs, results, inputs) ==
    [r \in DOMAIN regs |->
        IF r >= results.first /\ r < results.first + results.len
        THEN load_copy_input(regs, inputs[r - results.first + 1])
        ELSE regs[r]]

\* the execution of what the copy analyzer returned, CopyMany one by one
exec_true_copies(regs) ==
    IF cp_out.tag = "None" THEN regs
    ELSE IF cp_out.tag = "Single" THEN exec_copy(regs, cp_out.result, cp_out.input)
    ELSE exec_copy_many(regs, cp_out.results, arena_resolve(arena, cp_out.inputs))

\* the execution of what the copy analyzer returned, CopyMany at once
exec_true_copies_at_once(regs) ==
    IF cp_out.tag = "None" THEN regs
    ELSE IF cp_out.tag = "Single" THEN exec_copy(regs, cp_out.result, cp_out.input)
    ELSE exec_copy_many_at_once(regs, cp_out.results, arena_resolve(arena, cp_out.inputs))

\* C26: copy coalescing preserves meaning: executing what the copy analyzer
\* returns (nothing for None, the one copy for Single, the trimmed range for
\* Many) leaves every register with the same value as executing the full copy
\* of all inputs into all results. Copies only move values, so the registers
\* start with a value of their own each: whatever they hold, every register
\* ends with the initial value of the same register or the same immediate.
C26_SameMeaning ==
    cp_pc \in {"analyze", "analyze_slice", "push_br"} =>
        /\ exec_true_copies(OwnValues) = exec_copy_many(OwnValues, cp_results, cp_inputs)
        /\ exec_true_copies_at_once(OwnValues)
              = exec_copy_many_at_once(OwnValues, cp_results, cp_inputs)

\* (R0, R1, R2, R3) <- (R0, R2, 7, R3) was trimmed to (R1, R2) <- (R2, 7),
\* which changes R1 and R2
C26_Witness ==
    /\ cp_pc = "analyze"
    /\ cp_results = [first |-> 0, len |-> 4]
    /\ cp_inputs = <<IrReg(0), IrReg(2), IrImm(7), IrReg(3)>>
    /\ cp_out.tag = "Many"
    /\ cp_out.results = [first |-> 1, len |-> 2]
    /\ exec_true_copies(OwnValues)[1] = IrReg(2)
    /\ exec_true_copies(OwnValues)[2] = IrImm(7)
    /\ exec_true_copies(OwnValues)[0] = IrReg(0)

\* the one instruction that copies input into result: Copy for a register,
\* CopyImm for an immediate
IsCopyOf(inst, result, input) ==
    /\ inst.op = (IF input.tag = "Register" THEN "Copy" ELSE "CopyImm")
    /\ inst.result = result
    /\ inst.input = (IF input.tag = "Register" THEN input.reg ELSE input.value)

\* C21 as stated: push_br appends one br with no true copy; a copy (Copy for a
\* register input, CopyImm for an immediate) followed by a br with exactly one
\* true copy; one br_multi carrying the trimmed results and inputs with
\* several true copies.
C21_Claim ==
    cp_pc = "push_br" =>
        /\ TruePositions = {} =>
              /\ Len(insts) = 1
              /\ insts[1].op = "Br"
        /\ Cardinality(TruePositions) = 1 =>
              LET k == SetMin(TruePositions)
              IN  /\ Len(insts) = 2
                  /\ IsCopyOf(insts[1], cp_results.first + k - 1, cp_inputs[k])
                  /\ insts[2].op = "Br"
        /\ Cardinality(TruePositions) >= 2 =>
              LET lo == SetMin(TruePositions)
                  hi == SetMax(TruePositions)
              IN  /\ Len(insts) = 1
                  /\ insts[1].op \in {"BrMulti", "BrCopyMulti"}
                  /\ insts[1].results = [first |-> cp_results.first + lo - 1,
                                         len |-> hi - lo + 1]
                  /\ arena_resolve(arena, insts[1].returned) = SubSeq(cp_inputs, lo, hi)

(***************************************************************************)
(* The deduplicating provider-slice arena of the engine                    *)
(***************************************************************************)
\* most providers of one allocated slice
MaxSliceLen == 2
\* most providers stored in the arena
MaxPoolLen == 4

\* the encoded providers handed to the arena: a register and a constant
PoolProviders == {from_register(0), from_immediate(0).inner}

provider_pool_alloc_always_vacant(pool, providers) ==
    LET dedup == [first |-> Len(pool.providers), len |-> Len(providers)]
    IN  [pool |-> [dedup |-> pool.dedup \cup {[key |-> providers, slice |-> dedup]},
                   providers |-> pool.providers \o providers],
         slice |-> dedup, hit |-> FALSE]

provider_pool_alloc_without_extend(pool, providers) ==
    IF \E entry \in pool.dedup : entry.key = providers
    THEN [pool |-> pool,
          slice |-> (CHOOSE entry \in pool.dedup : entry.key = providers).slice,
          hit |-> TRUE]
    ELSE LET dedup == [first |-> Len(pool.providers), len |-> Len(providers)]
         IN  [pool |-> [dedup |-> pool.dedup \cup {[key |-> providers, slice |-> dedup]},
                        providers |-> pool.providers],
              slice |-> dedup, hit |-> FALSE]

\* DedupProviderSliceArena::alloc
provider_pool_alloc(pool, providers) ==
    IF \E entry \in pool.dedup : entry.key = providers
    THEN [pool |-> pool,
          slice |-> (CHOOSE entry \in pool.dedup : entry.key = providers).slice,
          hit |-> TRUE]
    ELSE LET dedup == [first |-> Len(pool.providers), len |-> Len(providers)]
         IN  [pool |-> [dedup |-> pool.dedup \cup {[key |-> providers, slice |-> dedup]},
                        providers |-> pool.providers \o providers],
              slice |-> dedup, hit |-> FALSE]

\* DedupProviderSliceArena::resolve, <<>> standing for the slice out of range
provider_pool_resolve(pool, slice) ==
    IF slice.first + slice.len <= Len(pool.providers)
    THEN SubSeq(pool.providers, slice.first + 1, slice.first + slice.len)
    ELSE <<>>

\* a call of DedupProviderSliceArena::alloc
do_alloc(providers) ==
    /\ Len(res.provider_pool.providers) + Len(providers) <= MaxPoolLen
    /\ LET r == provider_pool_alloc(res.provider_pool, providers)
       IN  /\ res' = [res EXCEPT !.provider_pool = r.pool]
           /\ elast' = [op |-> "alloc", hit |-> r.hit,
                        allocs |-> elast.allocs \cup {[xs |-> providers, handle |-> r.slice]}]
    /\ UNCHANGED <<enc, stack_vars, build_vars, copy_vars, thread_vars>>

\* DedupProviderSliceArena::default
InitArena ==
    /\ values = <<>>
    /\ frames = <<>>
    /\ phase = "idle"
    /\ last = NoLast
    /\ BuildIdle
    /\ CopyIdle
    /\ EngineIdle

NextArena == \E providers \in SeqsOf(PoolProviders, 0, MaxSliceLen) : do_alloc(providers)

SpecArena == InitArena /\ [][NextArena]_vars

\* C11: after any sequence of alloc calls, two calls returned equal handles
\* if and only if they were given elementwise equal sequences.
C11_Interning ==
    \A a \in elast.allocs : \A b \in elast.allocs :
        (a.handle = b.handle) <=> (a.xs = b.xs)

\* the empty sequence, a sequence and its prefix were allocated, and the last
\* call found its sequence already allocated
C11_Witness ==
    /\ elast.hit
    /\ \E a \in elast.allocs : \E b \in elast.allocs : \E c \in elast.allocs :
          /\ a.xs = <<>>
          /\ Len(b.xs) = 1
          /\ Len(c.xs) = 2 /\ c.xs[1] = b.xs[1]
          /\ c.handle.first < b.handle.first

(***************************************************************************)
(* The instruction builder, its label registry and the IR compiler         *)
(***************************************************************************)
\* most labels created for one function
MaxLabels == 2
\* most instructions pushed for one function
MaxInsts == 3

\* the states of a label in the LabelRegistry
Unresolved == [pinned |-> FALSE, instr |-> 0]
Pinned(instr) == [pinned |-> TRUE, instr |-> instr]

\* LabelRegistry::new_label
LabelRegistry_new_label(reg) == [labels |-> Append(reg, Unresolved), label |-> Len(reg)]

\* LabelRegistry::pin_label
LabelRegistry_pin_label(reg, label, instr) ==
    IF reg[label + 1].pinned
    THEN [ok |-> FALSE, labels |-> reg]
    ELSE [ok |-> TRUE, labels |-> [reg EXCEPT ![label + 1] = Pinned(instr)]]

\* LabelRegistry::try_pin_label
LabelRegistry_try_pin_label(reg, label, instr) ==
    IF reg[label + 1].pinned
    THEN reg
    ELSE [reg EXCEPT ![label + 1] = Pinned(instr)]

\* CompileContext::compile_label, [ok |-> FALSE] for a label never pinned
compile_label(reg, label) ==
    IF reg[label + 1].pinned
    THEN [ok |-> TRUE, target |-> reg[label + 1].instr]
    ELSE [ok |-> FALSE, target |-> 0]

\* InstructionsBuilder::current_pc
current_pc == Len(insts)

\* the IR instructions of the function: Trap, which names no label, and Br,
\* whose label compile_inst compiles as it does for every other branch
IrInstructions ==
    {[op |-> "Trap", target |-> 0]}
        \cup {[op |-> "Br", target |-> l] : l \in 0..(Len(labels) - 1)}

is_branch(inst) == inst.op = "Br"

\* the first target each label was pinned to, after label was asked to be
\* pinned to instr
FirstPin(label, instr) ==
    IF blast.first[label + 1].pinned
    THEN blast.first
    ELSE [blast.first EXCEPT ![label + 1] = Pinned(instr)]

\* InstructionsBuilder::new_label
new_label ==
    /\ bstate = "building"
    /\ Len(labels) < MaxLabels
    /\ LET r == LabelRegistry_new_label(labels)
       IN  /\ labels' = r.labels
           /\ blast' = [op |-> "new_label", label |-> r.label, pc |-> current_pc,
                        before |-> Unresolved, first |-> Append(blast.first, Unresolved),
                        ir |-> <<>>]
    /\ UNCHANGED <<insts, bstate, exec, stack_vars, copy_vars, engine_vars>>

repin_label(label) ==
    /\ bstate = "building"
    /\ LET instr == current_pc
       IN  /\ labels' = [labels EXCEPT ![label + 1] = Pinned(instr)]
           /\ bstate' = "building"
           /\ blast' = [op |-> "try_pin_label", label |-> label, pc |-> instr,
                        before |-> labels[label + 1], first |-> FirstPin(label, instr),
                        ir |-> <<>>]
    /\ UNCHANGED <<insts, exec, stack_vars, copy_vars, engine_vars>>

\* InstructionsBuilder::try_pin_label
try_pin_label(label) ==
    /\ bstate = "building"
    /\ LET instr == current_pc
       IN  /\ labels' = LabelRegistry_try_pin_label(labels, label, instr)
           /\ bstate' = "building"
           /\ blast' = [op |-> "try_pin_label", label |-> label, pc |-> instr,
                        before |-> labels[label + 1], first |-> FirstPin(label, instr),
                        ir |-> <<>>]
    /\ UNCHANGED <<insts, exec, stack_vars, copy_vars, engine_vars>>

\* InstructionsBuilder::pin_label
pin_label(label) ==
    /\ bstate = "building"
    /\ LET instr == current_pc
           r == LabelRegistry_pin_label(labels, label, instr)
       IN  /\ labels' = r.labels
           /\ bstate' = IF r.ok THEN "building" ELSE "panicked"
           /\ blast' = [op |-> "pin_label", label |-> label, pc |-> instr,
                        before |-> labels[label + 1], first |-> FirstPin(label, instr),
                        ir |-> <<>>]
    /\ UNCHANGED <<insts, exec, stack_vars, copy_vars, engine_vars>>

\* InstructionsBuilder::push_inst
push_inst(inst) ==
    /\ bstate = "building"
    /\ Len(insts) < MaxInsts
    /\ insts' = Append(insts, inst)
    /\ blast' = [op |-> "push_inst", label |-> 0, pc |-> current_pc,
                 before |-> Unresolved, first |-> blast.first, ir |-> <<>>]
    /\ UNCHANGED <<labels, bstate, exec, stack_vars, copy_vars, engine_vars>>

\* ConstPool::alloc_const: the reference of the value, interned
const_pool_alloc(cp, value) ==
    IF \E i \in 1..Len(cp) : cp[i] = value
    THEN [const_pool |-> cp, cref |-> (CHOOSE i \in 1..Len(cp) : cp[i] = value) - 1]
    ELSE [const_pool |-> Append(cp, value), cref |-> Len(cp)]

\* CompileContext::compile_register
compile_register(context, register) == register

\* CompileContext::resolve_provider_slice
resolve_provider_slice(context, slice) == arena_resolve(context.provider_slices, slice)

\* ExecProvider::from_immediate of an allocated constant reference
immediate_provider(a, p) == [const_pool |-> a.const_pool, ok |-> p.ok, provider |-> p.inner]

\* ExecProvider::from_immediate(const_pool.alloc_const(value))
compile_immediate_provider(a) == immediate_provider(a, from_immediate(a.cref))

\* EngineInner::compile_provider_impl
compile_provider_impl(cp, context, provider) ==
    IF provider.tag = "Register"
    THEN [const_pool |-> cp, ok |-> TRUE,
          provider |-> from_register(compile_register(context, provider.reg))]
    ELSE compile_immediate_provider(const_pool_alloc(cp, provider.value))

\* the constant pool after EngineInner::compile_immediate, and the reference
immediate_allocated(r, a) == [res |-> [r EXCEPT !.const_pool = a.const_pool], cref |-> a.cref]

\* EngineInner::compile_immediate
compile_immediate(r, immediate) ==
    immediate_allocated(r, const_pool_alloc(r.const_pool, immediate))

\* one more provider compiled
provider_compiled(prev, head) ==
    [const_pool |-> head.const_pool, ok |-> prev.ok /\ head.ok,
     providers |-> Append(prev.providers, head.provider)]

\* the map over the providers of EngineInner::compile_provider_slice, in order
compile_providers(cp, context, providers) ==
    LET upto[i \in 0..Len(providers)] ==
            IF i = 0
            THEN [const_pool |-> cp, ok |-> TRUE, providers |-> <<>>]
            ELSE CHOOSE s \in {provider_compiled(prev,
                                  compile_provider_impl(prev.const_pool, context, providers[i]))
                               : prev \in {upto[i - 1]}} : TRUE
    IN  upto[Len(providers)]

\* the engine resources and the handle after provider_pool.alloc
slice_allocated(r, compiled, a) ==
    [res |-> [r EXCEPT !.const_pool = compiled.const_pool, !.provider_pool = a.pool],
     ok |-> compiled.ok, slice |-> a.slice]

\* res.provider_pool.alloc(providers)
alloc_compiled(r, compiled) ==
    slice_allocated(r, compiled, provider_pool_alloc(r.provider_pool, compiled.providers))

provider_slice_left_uncompiled(r, context, provider) ==
    [res |-> r, ok |-> TRUE, slice |-> provider]

\* EngineInner::compile_provider_slice
compile_provider_slice(r, context, provider) ==
    alloc_compiled(r, compile_providers(r.const_pool, context,
                                        resolve_provider_slice(context, provider)))

\* ExecInstruction::Br { target }
with_target(r, inst, target) ==
    [ok |-> target.ok, res |-> r, inst |-> [inst EXCEPT !.target = target.target]]

\* ExecInstruction::CopyImm { result, input }
with_input(inst, result, input) ==
    [ok |-> TRUE, res |-> input.res,
     inst |-> [inst EXCEPT !.result = result, !.input = input.cref]]

\* ExecInstruction::Return { results }
with_results(inst, results) ==
    [ok |-> results.ok, res |-> results.res,
     inst |-> [inst EXCEPT !.results = results.slice]]

label_left_uncompiled(r, context, inst) ==
    IF is_branch(inst)
    THEN [ok |-> compile_label(context.labels, inst.target).ok, res |-> r, inst |-> inst]
    ELSE [ok |-> TRUE, res |-> r, inst |-> inst]

\* EngineInner::compile_inst
compile_inst(r, context, inst) ==
    IF is_branch(inst)
    THEN with_target(r, inst, compile_label(context.labels, inst.target))
    ELSE IF inst.op = "CopyImm"
    THEN with_input(inst, compile_register(context, inst.result),
                    compile_immediate(r, inst.input))
    ELSE IF inst.op = "Return"
    THEN with_results(inst, compile_provider_slice(r, context, inst.results))
    ELSE [ok |-> TRUE, res |-> r, inst |-> inst]

trap_not_emitted(prev, head) ==
    [ok |-> prev.ok /\ head.ok, res |-> head.res,
     insts |-> IF head.inst.op = "Trap" THEN prev.insts ELSE Append(prev.insts, head.inst)]

\* one more instruction compiled
inst_compiled(prev, head) ==
    [ok |-> prev.ok /\ head.ok, res |-> head.res, insts |-> Append(prev.insts, head.inst)]

\* the map of compile_inst over the instructions in EngineInner::compile, in
\* order
compile_insts(r, context, ir) ==
    LET upto[i \in 0..Len(ir)] ==
            IF i = 0
            THEN [ok |-> TRUE, res |-> r, insts |-> <<>>]
            ELSE CHOOSE s \in {inst_compiled(prev, compile_inst(prev.res, context, ir[i]))
                               : prev \in {upto[i - 1]}} : TRUE
    IN  upto[Len(ir)]

\* CodeMap::alloc: the function body appended, its index the FuncBody handle
code_map_alloc(cm, compiled, len_regs) ==
    Append(cm, [insts |-> compiled, len_regs |-> len_regs])

\* self.code_map.alloc(insts, len_regs) on the compiled instructions
alloc_func_body(compiled, len_regs) ==
    [ok |-> compiled.ok,
     insts |-> compiled.insts,
     res |-> IF compiled.ok
             THEN [compiled.res EXCEPT
                     !.code_map = code_map_alloc(@, compiled.insts, len_regs)]
             ELSE compiled.res]

\* EngineInner::compile
compile(r, context, ir) ==
    alloc_func_body(compile_insts(r, context, ir), context.len_registers)

\* the CompileContext built by InstructionsBuilder::finish
CompileContext(provider_slices, registry, len_registers) ==
    [provider_slices |-> provider_slices, labels |-> registry,
     len_registers |-> len_registers]

\* the register counts of the functions built: Providers, from which the
\* CompileContext answers len_registers
RegisterCounts == {0, 1}

\* InstructionsBuilder::finish
finish(len_registers) ==
    /\ bstate = "building"
    /\ \E r \in {compile(res, CompileContext(arena, labels, len_registers), insts)} :
           /\ bstate' = IF r.ok THEN "finished" ELSE "panicked"
           /\ exec' = IF r.ok THEN r.insts ELSE <<>>
           /\ res' = r.res
    /\ insts' = <<>>
    /\ blast' = [op |-> "finish", label |-> 0, pc |-> current_pc,
                 before |-> Unresolved, first |-> blast.first, ir |-> insts,
                 len_registers |-> len_registers]
    /\ UNCHANGED <<labels, stack_vars, copy_vars, elast, enc, thread_vars>>

\* InstructionsBuilder::default
InitBuild ==
    /\ values = <<>>
    /\ frames = <<>>
    /\ phase = "idle"
    /\ last = NoLast
    /\ CopyIdle
    /\ EngineIdle
    /\ insts = <<>>
    /\ labels = <<>>
    /\ bstate = "building"
    /\ blast = [op |-> "new", label |-> 0, pc |-> 0,
                before |-> Unresolved, first |-> <<>>, ir |-> <<>>]
    /\ exec = <<>>

NextBuild ==
    \/ new_label
    \/ \E label \in 0..(Len(labels) - 1) : pin_label(label)
    \/ \E label \in 0..(Len(labels) - 1) : try_pin_label(label)
    \/ \E inst \in IrInstructions : push_inst(inst)
    \/ \E len_registers \in RegisterCounts : finish(len_registers)

SpecBuild == InitBuild /\ [][NextBuild]_vars

(***************************************************************************)
(* Claims about labels and branches                                        *)
(***************************************************************************)
\* C9: pin_label on an unpinned label pins it to the index of the next
\* instruction to be pushed; pin_label on a pinned label panics and leaves the
\* target unchanged; try_pin_label on a pinned label is a no-op, so every label
\* stays pinned to its first target however often it is called and however
\* many instructions were pushed since.
C9_PinLabel ==
    /\ \A l \in 1..Len(labels) : labels[l] = blast.first[l]
    /\ (blast.op = "pin_label" /\ ~blast.before.pinned) =>
          /\ bstate = "building"
          /\ labels[blast.label + 1] = Pinned(Len(insts))
    /\ (blast.op = "pin_label" /\ blast.before.pinned) =>
          /\ bstate = "panicked"
          /\ labels[blast.label + 1] = blast.before
    /\ (blast.op = "try_pin_label" /\ blast.before.pinned) =>
          /\ bstate = "building"
          /\ labels[blast.label + 1] = blast.before

\* try_pin_label was called on a label pinned before more instructions were
\* pushed
C9_Witness ==
    /\ blast.op = "try_pin_label"
    /\ blast.before.pinned
    /\ blast.before.instr < blast.pc
    /\ labels[blast.label + 1] = blast.before

\* the pinned index of the label the branch at IR index i refers to
PinnedIndexOf(i) == labels[blast.ir[i + 1].target + 1].instr

C22_OneForOne ==
    bstate = "finished" =>
        /\ Len(exec) = Len(blast.ir)
        /\ \A i \in 1..Len(blast.ir) :
              /\ exec[i].op = blast.ir[i].op
              /\ is_branch(blast.ir[i]) =>
                    /\ exec[i].target = labels[blast.ir[i].target + 1].instr
                    /\ exec[i].target <= Len(exec)
        /\ Len(res.code_map) = 1
        /\ res.code_map[1].insts = exec
        /\ res.code_map[1].len_regs = blast.len_registers

\* a Trap between two branches to a label pinned behind the Trap, compiled
\* for a function of one register
C22_Witness ==
    /\ bstate = "finished"
    /\ Len(exec) = 3
    /\ exec[1].op = "Br" /\ exec[2].op = "Trap" /\ exec[3].op = "Br"
    /\ exec[1].target = 2 /\ exec[3].target = 2
    /\ blast.len_registers = 1
    /\ res.code_map[1].len_regs = 1

(***************************************************************************)
(* The encoding of providers                                               *)
(***************************************************************************)
\* u16::MAX, the largest ExecRegister
u16_MAX == 65535
\* how many of the smallest and of the largest inputs of each kind are encoded
MaxSample == 15

\* the registers encoded: the smallest and the largest of the 16-bit registers
SampleRegisters == (0..MaxSample) \cup {u16_MAX - k : k \in 0..MaxSample}

\* the constant indices encoded: the smallest, the largest below i32::MAX, and
\* i32::MAX itself
SampleConstRefs == (0..MaxSample) \cup {i32_MAX - k : k \in 0..(MaxSample + 1)}

\* a call of ExecProvider::from_register
do_from_register ==
    /\ enc.pc = "start"
    /\ enc.kind = "Register"
    /\ enc' = [enc EXCEPT !.pc = "encoded", !.inner = from_register(enc.input)]
    /\ UNCHANGED <<res, elast, stack_vars, build_vars, copy_vars, thread_vars>>

\* a call of ExecProvider::from_immediate
do_from_immediate ==
    /\ enc.pc = "start"
    /\ enc.kind = "Immediate"
    /\ LET r == from_immediate(enc.input)
       IN  enc' = [enc EXCEPT !.pc = IF r.ok THEN "encoded" ELSE "panicked",
                              !.inner = r.inner]
    /\ UNCHANGED <<res, elast, stack_vars, build_vars, copy_vars, thread_vars>>

\* a call of ExecProvider::decode
do_decode ==
    /\ enc.pc = "encoded"
    /\ enc' = [enc EXCEPT !.pc = "decoded", !.dec = decode(enc.inner)]
    /\ UNCHANGED <<res, elast, stack_vars, build_vars, copy_vars, thread_vars>>

\* any register or constant index about to be encoded
InitProvider ==
    /\ values = <<>>
    /\ frames = <<>>
    /\ phase = "idle"
    /\ last = NoLast
    /\ BuildIdle
    /\ CopyIdle
    /\ res = NoRes
    /\ elast = NoELast
    /\ runs = <<>>
    /\ lock = 0
    /\ threads = <<>>
    /\ tr = NoTranslation
    /\ cf = NoFrame
    /\ \E kind \in {"Register", "Immediate"} :
       \E input \in IF kind = "Register" THEN SampleRegisters ELSE SampleConstRefs :
          enc = [pc |-> "start", kind |-> kind, input |-> input, inner |-> 0,
                 dec |-> [tag |-> "none", idx |-> 0]]

NextProvider ==
    \/ do_from_register
    \/ do_from_immediate
    \/ do_decode

SpecProvider == InitProvider /\ [][NextProvider]_vars

\* C12: from_register(r) is non-negative and decodes to Register(r);
\* from_immediate(c) for c < i32::MAX is the negative -(c + 1) and decodes to
\* the constant reference c; from_immediate panics for a larger index.
C12_RoundTrip ==
    /\ (enc.pc \in {"encoded", "decoded"} /\ enc.kind = "Register") =>
          /\ enc.inner >= 0
          /\ enc.pc = "decoded" => enc.dec = [tag |-> "Register", idx |-> enc.input]
    /\ (enc.pc \in {"encoded", "decoded"} /\ enc.kind = "Immediate") =>
          /\ enc.input < i32_MAX
          /\ enc.inner < 0
          /\ enc.inner = 0 - (enc.input + 1)
          /\ enc.pc = "decoded" => enc.dec = [tag |-> "Immediate", idx |-> enc.input]
    /\ (enc.pc # "start" /\ enc.kind = "Immediate" /\ enc.input >= i32_MAX) =>
          enc.pc = "panicked"
    /\ enc.pc = "panicked" => (enc.kind = "Immediate" /\ enc.input >= i32_MAX)

\* the largest constant index that can be encoded went through the round trip
C12_Witness ==
    /\ enc.pc = "decoded"
    /\ enc.kind = "Immediate"
    /\ enc.input = i32_MAX - 1
    /\ enc.inner = 0 - i32_MAX
    /\ enc.dec = [tag |-> "Immediate", idx |-> i32_MAX - 1]

(***************************************************************************)
(* The engine: compiling functions and allocating in its pools             *)
(***************************************************************************)
\* most functions compiled by the engine
MaxFuncs == 2

\* the provider slices of the function builder the compiled functions refer to
FuncSlices == <<IrReg(0), IrImm(7), IrImm(9)>>

NoSlice == [first |-> 0, len |-> 0]

\* IrInstruction::Trap, ::CopyImm and ::Return
IrTrap == [op |-> "Trap", target |-> 0, result |-> 0, input |-> 0, results |-> NoSlice]
IrCopyImm(result, input) ==
    [op |-> "CopyImm", target |-> 0, result |-> result, input |-> input, results |-> NoSlice]
IrReturn(first, len) ==
    [op |-> "Return", target |-> 0, result |-> 0, input |-> 0,
     results |-> [first |-> first, len |-> len]]

\* the translated functions handed to the engine
IrFuncs ==
    { <<IrTrap>>,
      <<IrReturn(0, 0)>>,
      <<IrCopyImm(0, 7), IrReturn(0, 1)>>,
      <<IrReturn(1, 2)>>,
      <<IrCopyImm(1, 9), IrReturn(0, 3)>>,
      <<IrReturn(2, 1), IrReturn(1, 1)>> }

\* the values handed to Engine::alloc_const
ConstValues == {7, 11}

\* Engine::compile
engine_compile(func) ==
    /\ Len(res.code_map) < MaxFuncs
    /\ \E r \in {compile(res, CompileContext(FuncSlices, <<>>, 1), func)} :
           /\ r.ok
           /\ res' = r.res
    /\ elast' = [elast EXCEPT !.op = "compile"]
    /\ UNCHANGED <<enc, stack_vars, build_vars, copy_vars, thread_vars>>

\* Engine::alloc_const
engine_alloc_const(value) ==
    /\ res' = [res EXCEPT !.const_pool = const_pool_alloc(@, value).const_pool]
    /\ elast' = [elast EXCEPT !.op = "alloc_const"]
    /\ UNCHANGED <<enc, stack_vars, build_vars, copy_vars, thread_vars>>

\* the slices handed to Engine::alloc_provider_slice
AllocSlices ==
    {<<>>, <<from_register(0)>>, <<from_register(0), from_immediate(0).inner>>}

\* Engine::alloc_provider_slice
engine_alloc_provider_slice(providers) ==
    /\ res' = [res EXCEPT !.provider_pool = provider_pool_alloc(@, providers).pool]
    /\ elast' = [elast EXCEPT !.op = "alloc_provider_slice"]
    /\ UNCHANGED <<enc, stack_vars, build_vars, copy_vars, thread_vars>>

\* Engine::new
InitEngine ==
    /\ values = <<>>
    /\ frames = <<>>
    /\ phase = "idle"
    /\ last = NoLast
    /\ BuildIdle
    /\ CopyIdle
    /\ EngineIdle

NextEngine ==
    \/ \E func \in IrFuncs : engine_compile(func)
    \/ \E value \in ConstValues : engine_alloc_const(value)
    \/ \E providers \in AllocSlices : engine_alloc_provider_slice(providers)

SpecEngine == InitEngine /\ [][NextEngine]_vars

\* the provider slice lies inside the provider-slice arena and its constants
\* inside the constant pool
SliceInPools(slice) ==
    /\ slice.first + slice.len <= Len(res.provider_pool.providers)
    /\ \A k \in (slice.first + 1)..(slice.first + slice.len) :
          k <= Len(res.provider_pool.providers) =>
             LET d == decode(res.provider_pool.providers[k])
             IN  d.tag = "Immediate" => d.idx < Len(res.const_pool)

\* C13: every provider slice of every compiled function resolves inside the
\* provider-slice arena and every constant reference inside the constant pool,
\* whatever was compiled or allocated afterwards.
C13_InPools ==
    \A f \in 1..Len(res.code_map) :
        \A i \in 1..Len(res.code_map[f].insts) :
            LET inst == res.code_map[f].insts[i]
            IN  /\ inst.op = "Return" => SliceInPools(inst.results)
                /\ inst.op = "CopyImm" => inst.input < Len(res.const_pool)

\* a function with a constant and a slice holding constants was compiled, then
\* another function, then a slice was allocated directly
C13_Witness ==
    /\ Len(res.code_map) = 2
    /\ elast.op = "alloc_provider_slice"
    /\ Len(res.code_map[1].insts) = 2
    /\ res.code_map[1].insts[1].op = "CopyImm"
    /\ res.code_map[1].insts[2].results.len = 3
    /\ res.code_map[2].insts[1].results.len = 2
    /\ Len(res.provider_pool.providers) > 5

(***************************************************************************)
(* Two runs of translation and compilation                                 *)
(***************************************************************************)
\* the engine states a run starts from: a new engine, and an engine that has
\* compiled one function
EngineStates ==
    {NoRes} \cup {compile(NoRes, CompileContext(FuncSlices, <<>>, 1), func).res : func \in IrFuncs}

\* what the function builder of a run holds from functions translated before
BuilderPrefixes == {<<>>, <<IrImm(5)>>}

\* the translation of func by a builder whose arena already holds prefix: the
\* same instructions, their provider slices allocated behind the prefix
translate(func, prefix) ==
    [slices |-> prefix \o FuncSlices,
     insts |-> [i \in 1..Len(func) |->
                  IF func[i].op = "Return"
                  THEN [func[i] EXCEPT !.results.first = @ + Len(prefix)]
                  ELSE func[i]]]

\* InstructionsBuilder::finish of run k: Engine::compile on the run's engine
run_finish(k) ==
    /\ runs[k].pc = "translated"
    /\ \E r \in {compile(runs[k].res, CompileContext(runs[k].slices, <<>>, 1),
                         runs[k].insts)} :
           /\ r.ok
           /\ runs' = [runs EXCEPT ![k].pc = "compiled", ![k].res = r.res,
                                   ![k].out = r.insts]
    /\ UNCHANGED <<res, elast, enc, lock, threads, stack_vars, build_vars, copy_vars, tr, cf>>

\* two runs translating one function, on engines in equal states
InitRuns ==
    /\ values = <<>>
    /\ frames = <<>>
    /\ phase = "idle"
    /\ last = NoLast
    /\ BuildIdle
    /\ CopyIdle
    /\ res = NoRes
    /\ elast = NoELast
    /\ enc = [pc |-> "idle"]
    /\ tr = NoTranslation
    /\ cf = NoFrame
    /\ lock = 0
    /\ threads = <<>>
    /\ \E func \in IrFuncs : \E engine \in EngineStates :
       \E p1 \in BuilderPrefixes : \E p2 \in BuilderPrefixes :
          runs = [k \in 1..2 |->
                    LET t == translate(func, IF k = 1 THEN p1 ELSE p2)
                    IN  [pc |-> "translated", func |-> func, start |-> engine,
                         res |-> engine, slices |-> t.slices, insts |-> t.insts,
                         out |-> <<>>]]

NextRuns == \E k \in 1..2 : run_finish(k)

SpecRuns == InitRuns /\ [][NextRuns]_vars

Threads == {1, 2}

\* the functions the threads compile
ThreadFuncs ==
    { <<IrCopyImm(0, 7), IrReturn(0, 1)>>,
      <<IrCopyImm(1, 9), IrReturn(0, 3)>> }

\* the compile context of the threads' functions
ThreadContext == CompileContext(FuncSlices, <<>>, 1)

\* the Engine methods the threads call, with their arguments
EngineCalls ==
    {[kind |-> "compile", func |-> func, value |-> 0] : func \in ThreadFuncs}
        \cup {[kind |-> "alloc_const", func |-> <<>>, value |-> value] : value \in ConstValues}
        \cup {[kind |-> "alloc_func_type", func |-> <<>>, value |-> 0],
              [kind |-> "execute_func", func |-> <<>>, value |-> 0]}

\* the steps a call takes on the EngineInner: one per instruction of a
\* compiled function, one allocation, and for execute_func the lookup of the
\* function body followed by its execution
CallSteps(call) ==
    IF call.kind = "compile" THEN Len(call.func)
    ELSE IF call.kind = "execute_func" THEN 2
    ELSE 1

\* a thread outside of any Engine method
ThreadIdle ==
    [pc |-> "idle", call |-> [kind |-> "none", func |-> <<>>, value |-> 0],
     i |-> 0, start |-> NoRes, seen |-> <<>>]

\* a thread enters an Engine method on its clone
engine_call(t, call) ==
    /\ threads[t].pc = "idle"
    /\ call.kind = "compile" =>
          Len(res.code_map)
              + Cardinality({u \in Threads : /\ threads[u].call.kind = "compile"
                                             /\ threads[u].i = 0})
              < MaxFuncs
    /\ threads' = [threads EXCEPT ![t] = [ThreadIdle EXCEPT !.pc = "spin", !.call = call]]
    /\ UNCHANGED <<res, lock, runs, elast, enc, stack_vars, build_vars, copy_vars, tr, cf>>

lock_always_granted(l) == TRUE

\* spin::Mutex::lock: the lock is taken only when it is free
lock_is_free(l) == l = 0

\* self.inner.lock(): the guard is held from here on
mutex_lock(t) ==
    /\ threads[t].pc = "spin"
    /\ lock_is_free(lock)
    /\ lock' = t
    /\ threads' = [threads EXCEPT ![t].pc = "held", ![t].start = res]
    /\ UNCHANGED <<res, runs, elast, enc, stack_vars, build_vars, copy_vars, tr, cf>>

\* the instruction appended to the function body the code map is building
code_map_push(cm, inst) ==
    [cm EXCEPT ![Len(cm)].insts = Append(@, inst)]

\* EngineInner::compile under the guard, one instruction: compile_inst, the
\* compiled instruction going into the code map
inner_compile(t) ==
    /\ threads[t].pc = "held"
    /\ threads[t].call.kind = "compile"
    /\ threads[t].i < CallSteps(threads[t].call)
    /\ \E r \in {compile_inst(res, ThreadContext, threads[t].call.func[threads[t].i + 1])} :
           /\ r.ok
           /\ res' = [r.res EXCEPT !.code_map =
                         IF threads[t].i = 0
                         THEN code_map_alloc(@, <<r.inst>>, ThreadContext.len_registers)
                         ELSE code_map_push(@, r.inst)]
    /\ threads' = [threads EXCEPT ![t].i = @ + 1]
    /\ UNCHANGED <<lock, runs, elast, enc, stack_vars, build_vars, copy_vars, tr, cf>>

\* EngineInner::alloc_const under the guard
inner_alloc_const(t) ==
    /\ threads[t].pc = "held"
    /\ threads[t].call.kind = "alloc_const"
    /\ threads[t].i < CallSteps(threads[t].call)
    /\ res' = [res EXCEPT !.const_pool = const_pool_alloc(@, threads[t].call.value).const_pool]
    /\ threads' = [threads EXCEPT ![t].i = @ + 1]
    /\ UNCHANGED <<lock, runs, elast, enc, stack_vars, build_vars, copy_vars, tr, cf>>

\* EngineInner::alloc_func_type and ::execute_func under the guard: a step
\* that reads the engine resources
inner_read(t) ==
    /\ threads[t].pc = "held"
    /\ threads[t].call.kind \in {"alloc_func_type", "execute_func"}
    /\ threads[t].i < CallSteps(threads[t].call)
    /\ threads' = [threads EXCEPT ![t].i = @ + 1, ![t].seen = Append(@, res)]
    /\ UNCHANGED <<res, lock, runs, elast, enc, stack_vars, build_vars, copy_vars, tr, cf>>

\* the guard is dropped when the method returns
mutex_unlock(t) ==
    /\ threads[t].pc = "held"
    /\ threads[t].i = CallSteps(threads[t].call)
    /\ lock' = 0
    /\ threads' = [threads EXCEPT ![t] = ThreadIdle]
    /\ UNCHANGED <<res, runs, elast, enc, stack_vars, build_vars, copy_vars, tr, cf>>

\* Engine::new and its clones handed to the threads
InitThreads ==
    /\ values = <<>>
    /\ frames = <<>>
    /\ phase = "idle"
    /\ last = NoLast
    /\ BuildIdle
    /\ CopyIdle
    /\ res = NoRes
    /\ elast = NoELast
    /\ enc = [pc |-> "idle"]
    /\ runs = <<>>
    /\ tr = NoTranslation
    /\ cf = NoFrame
    /\ lock = 0
    /\ threads = [t \in Threads |-> ThreadIdle]

NextThreads ==
    \/ \E t \in Threads : \E call \in EngineCalls : engine_call(t, call)
    \/ \E t \in Threads : mutex_lock(t)
    \/ \E t \in Threads : inner_compile(t)
    \/ \E t \in Threads : inner_alloc_const(t)
    \/ \E t \in Threads : inner_read(t)
    \/ \E t \in Threads : mutex_unlock(t)

SpecThreads == InitThreads /\ [][NextThreads]_vars

\* the compiled provider stands for the IR provider
ProviderMatches(r, provider, ir) ==
    LET d == decode(provider)
    IN  IF ir.tag = "Register"
        THEN d.tag = "Register" /\ d.idx = ir.reg
        ELSE /\ d.tag = "Immediate"
             /\ d.idx < Len(r.const_pool)
             /\ r.const_pool[d.idx + 1] = ir.value

\* the compiled instruction stands for the IR instruction
InstMatches(r, inst, ir) ==
    /\ inst.op = ir.op
    /\ ir.op = "CopyImm" =>
          /\ inst.result = ir.result
          /\ inst.input < Len(r.const_pool)
          /\ r.const_pool[inst.input + 1] = ir.input
    /\ ir.op = "Return" =>
          /\ inst.results.len = ir.results.len
          /\ inst.results.first + inst.results.len <= Len(r.provider_pool.providers)
          /\ \A k \in 1..ir.results.len :
                ProviderMatches(r, r.provider_pool.providers[inst.results.first + k],
                                FuncSlices[ir.results.first + k])

\* the function body holds the instructions of one function, in order
BodyOf(r, body, func) ==
    /\ Len(body.insts) = Len(func)
    /\ \A i \in 1..Len(func) : i <= Len(body.insts) => InstMatches(r, body.insts[i], func[i])

\* every function body of the code map is the body of one function
WholeBodies(r) ==
    \A f \in 1..Len(r.code_map) : \E func \in ThreadFuncs : BodyOf(r, r.code_map[f], func)

\* the engine resources after the first i steps of a call that started on start
Progress(start, call, i) ==
    IF i = 0 THEN start
    ELSE IF call.kind = "compile"
    THEN LET c == compile_insts(start, ThreadContext, SubSeq(call.func, 1, i))
         IN  [c.res EXCEPT !.code_map =
                 code_map_alloc(@, c.insts, ThreadContext.len_registers)]
    ELSE IF call.kind = "alloc_const"
    THEN [start EXCEPT !.const_pool = const_pool_alloc(@, call.value).const_pool]
    ELSE start

\* C15: the operations on the clones of one Engine are serialized by the
\* engine mutex. At most one thread is inside an Engine method; while a thread
\* is inside, the engine resources are exactly what its own call made of the
\* resources it started from (nothing of another call shows up, and what it
\* reads never changes under it); the resources a call starts from hold whole
\* function bodies only; a finished compile left what EngineInner::compile
\* yields; and every function body of the code map is the body of one
\* function, its instructions not mixed with another's.
C15_Serialized ==
    /\ \A t, u \in Threads :
          (threads[t].pc = "held" /\ threads[u].pc = "held") => t = u
    /\ \A t \in Threads :
          threads[t].pc = "held" =>
             /\ lock = t
             /\ res = Progress(threads[t].start, threads[t].call, threads[t].i)
             /\ \A k \in 1..Len(threads[t].seen) : threads[t].seen[k] = threads[t].start
             /\ WholeBodies(threads[t].start)
             /\ (threads[t].call.kind = "compile"
                    /\ threads[t].i = CallSteps(threads[t].call)) =>
                   res = compile(threads[t].start, ThreadContext, threads[t].call.func).res
    /\ (\A t \in Threads : threads[t].pc # "held") => WholeBodies(res)

\* a thread is in the middle of compiling a function, after a constant was
\* allocated, while the other thread waits for the lock to compile another
C15_Witness ==
    /\ threads[1].pc = "held"
    /\ threads[1].call.kind = "compile"
    /\ threads[1].i = 1
    /\ threads[2].pc = "spin"
    /\ threads[2].call.kind = "compile"
    /\ threads[2].call.func # threads[1].call.func
    /\ Len(res.code_map) = 1
    /\ Len(res.code_map[1].insts) = 1
    /\ Len(res.const_pool) = 2

(***************************************************************************)
(* Host functions that call back into the engine                           *)
(***************************************************************************)
\* the activation that runs Engine methods from the embedder, and the
\* activation of a host function called by the Wasm code it executes
Embedder == 1
HostActivation == 2

\* what a host function does before it returns: nothing with the engine, or
\* one call of an Engine method through another handle of the same engine
HostCalls ==
    {[kind |-> "none", func |-> <<>>, value |-> 0],
     [kind |-> "config", func |-> <<>>, value |-> 0]}
        \cup EngineCalls

\* the Wasm code executed by execute_func calls a host function
\* (Stack::call_host, host_func.call), which calls the engine or does not
host_func_call(t, call) ==
    /\ t = Embedder
    /\ threads[t].pc = "held"
    /\ threads[t].call.kind = "execute_func"
    /\ threads[t].i = 1
    /\ threads[HostActivation].pc = "idle"
    /\ threads' = [threads EXCEPT
                     ![t].pc = "in_host",
                     ![HostActivation] =
                        IF call.kind = "none"
                        THEN ThreadIdle
                        ELSE [ThreadIdle EXCEPT !.pc = "spin", !.call = call]]
    /\ UNCHANGED <<res, lock, runs, elast, enc, stack_vars, build_vars, copy_vars, tr, cf>>

\* the host function returns to the Wasm code once the Engine method it
\* called, if any, has returned
host_func_return(t) ==
    /\ threads[t].pc = "in_host"
    /\ threads[HostActivation].pc = "idle"
    /\ threads' = [threads EXCEPT ![t].pc = "held", ![t].i = @ + 1,
                                  ![t].seen = Append(@, res)]
    /\ UNCHANGED <<res, lock, runs, elast, enc, stack_vars, build_vars, copy_vars, tr, cf>>

\* the embedder calls Engine methods one after the other; the Wasm code run
\* by execute_func calls at most one host function
NextHostCalls ==
    \/ \E call \in EngineCalls : engine_call(Embedder, call)
    \/ \E t \in Threads : mutex_lock(t)
    \/ \E t \in Threads : inner_compile(t)
    \/ \E t \in Threads : inner_alloc_const(t)
    \/ \E t \in Threads : inner_read(t)
    \/ \E t \in Threads : mutex_unlock(t)
    \/ \E call \in HostCalls : host_func_call(Embedder, call)
    \/ host_func_return(Embedder)

\* the thread keeps running: a step that can be taken is taken, and a spinning
\* lock() keeps trying
SpecHostCalls == InitThreads /\ [][NextHostCalls]_vars /\ WF_vars(NextHostCalls)

\* C29 as stated: every execute_func call whose Wasm code and host functions
\* terminate eventually returns and releases the engine mutex, also when a
\* host function it invokes calls an Engine method (alloc_const, compile,
\* config or execute_func) through another handle of the same engine.
C29_Claim ==
    (threads[Embedder].pc = "spin" /\ threads[Embedder].call.kind = "execute_func")
        ~> (threads[Embedder].pc = "idle" /\ lock = 0)

\* C29 without the re-entry: an execute_func call returns and releases the
\* mutex unless a host function it invoked waits for the mutex of the same
\* engine
C29_UnlessReentered ==
    (threads[Embedder].pc = "spin" /\ threads[Embedder].call.kind = "execute_func")
        ~> \/ threads[Embedder].pc = "idle" /\ lock = 0
           \/ threads[HostActivation].pc = "spin" /\ lock = Embedder

(***************************************************************************)
(* The function translator: blocks and branches                            *)
(***************************************************************************)
\* deepest nesting of blocks around the translated code
MaxDepth == 2

\* the Wasm operators of the translated functions
LocalGet(n) == [op |-> "local.get", n |-> n, params |-> 0, results |-> 0]
I32Const(c) == [op |-> "i32.const", n |-> c, params |-> 0, results |-> 0]
Drop == [op |-> "drop", n |-> 0, params |-> 0, results |-> 0]
Block(params, results) == [op |-> "block", n |-> 0, params |-> params, results |-> results]
End == [op |-> "end", n |-> 0, params |-> 0, results |-> 0]
WasmBr(depth) == [op |-> "br", n |-> depth, params |-> 0, results |-> 0]
WasmBrIf(depth) == [op |-> "br_if", n |-> depth, params |-> 0, results |-> 0]

\* a Wasm function: its signature and its operators, the final end included
WasmFunction(params, results, body) ==
    [params |-> params, results |-> results, body |-> body \o <<End>>]

\* the operators inner inside d nested blocks of one block type
Nested(d, params, results, inner) ==
    [k \in 1..d |-> Block(params, results)] \o inner \o [k \in 1..d |-> End]

\* local.get 0 .. local.get (n - 1)
LocalGets(n) == [k \in 1..n |-> LocalGet(k - 1)]

\* the IR instructions the translator emits; a branch names a label until
\* the offsets are resolved
TrInst(op) ==
    [op |-> op, result |-> 0, input |-> IrReg(0), results |-> IrRegisterSlice_new(0, 0),
     inputs |-> <<>>, cond |-> 0, label |-> 0, offset |-> 0]
TrReturn(inputs) == [TrInst("Return") EXCEPT !.inputs = inputs]
TrReturnNez(cond, inputs) == [TrInst("ReturnNez") EXCEPT !.cond = cond, !.inputs = inputs]
TrCopy(result, input) ==
    [TrInst(IF input.tag = "Register" THEN "Copy" ELSE "CopyImm")
        EXCEPT !.result = result, !.input = input]
TrCopyMany(results, inputs) ==
    [TrInst("CopyMany") EXCEPT !.results = results, !.inputs = inputs]
TrBr(label) == [TrInst("Br") EXCEPT !.label = label]
TrBrEqz(cond, label) == [TrInst("BrEqz") EXCEPT !.cond = cond, !.label = label]
TrBrNez(cond, label) == [TrInst("BrNez") EXCEPT !.cond = cond, !.label = label]

\* the control frames
FuncFrame(len_results, end_label) ==
    [kind |-> "func", height |-> 0, len_results |-> len_results,
     results |-> IrRegisterSlice_new(0, 0), end_label |-> end_label, branches |-> 0]
BlockFrame(height, results, end_label) ==
    [kind |-> "block", height |-> height, len_results |-> results.len,
     results |-> results, end_label |-> end_label, branches |-> 0]
UnreachableFrame ==
    [kind |-> "unreachable", height |-> 0, len_results |-> 0,
     results |-> IrRegisterSlice_new(0, 0), end_label |-> 0, branches |-> 0]

\* the top n providers of the provider stack
peek_n(stack, n) == SubSeq(stack, Len(stack) - n + 1, Len(stack))

\* the provider stack without its top n providers
pop_n(stack, n) == SubSeq(stack, 1, Len(stack) - n)

\* the dynamic-register cursor: the first register above the locals and above
\* the dynamic registers held by the providers of stack
next_dynamic(len_locals, stack) ==
    len_locals + Cardinality({i \in 1..Len(stack) :
                                 stack[i].tag = "Register" /\ stack[i].reg >= len_locals})

\* the registers of a slice as providers
slice_providers(slice) == [k \in 1..slice.len |-> IrReg(slice.first + k - 1)]

\* the copies that put inputs into the registers results, coalesced by the
\* copy analyzer: nothing, a single copy, or one copy of many
copy_insts(results, inputs) ==
    LET a == analyze(<<>>, results, inputs)
    IN  IF a.out.tag = "None" THEN <<>>
        ELSE IF a.out.tag = "Single" THEN <<TrCopy(a.out.result, a.out.input)>>
        ELSE <<TrCopyMany(a.out.results, arena_resolve(a.arena, a.out.inputs))>>

\* the record kept of a branch or of the end of a block
\* (from, to: the instruction count before and after; stack: the providers
\* before; after: the providers after)
TrEvent(kind, t, frame, depth, from_stack, to) ==
    [kind |-> kind, target |-> frame.kind, depth |-> depth, label |-> frame.end_label,
     results |-> frame.results, len_results |-> frame.len_results,
     height |-> frame.height, branches |-> frame.branches,
     reachable |-> t.reachable, from |-> Len(t.insts), to |-> Len(to.insts),
     stack |-> from_stack, after |-> to.stack, at |-> t.at]

\* the translator after an operator that is skipped or emits nothing more
advance(t) == [t EXCEPT !.at = @ + 1]

\* the translator with the instructions appended
emit(t, new_insts) == [t EXCEPT !.insts = @ \o new_insts]

\* the translator with the event recorded
record(t, kind, frame, depth, from_stack, to) ==
    [to EXCEPT !.events = Append(@, TrEvent(kind, t, frame, depth, from_stack, to))]

\* the translator at the start of a function: the function frame on the
\* control stack, its end label allocated
start(func) ==
    [pc |-> "translating", func |-> func, at |-> 1, stack |-> <<>>,
     control |-> <<FuncFrame(func.results, 0)>>, insts |-> <<>>,
     labels |-> LabelRegistry_new_label(<<>>).labels, reachable |-> TRUE, events |-> <<>>]

\* local.get: the local's register goes on the provider stack
translate_local_get(t, n) ==
    IF t.reachable THEN advance([t EXCEPT !.stack = Append(@, IrReg(n))]) ELSE advance(t)

\* i32.const: the constant goes on the provider stack as an immediate
translate_i32_const(t, c) ==
    IF t.reachable THEN advance([t EXCEPT !.stack = Append(@, IrImm(c))]) ELSE advance(t)

\* drop
translate_drop(t) ==
    IF t.reachable THEN advance([t EXCEPT !.stack = pop_n(@, 1)]) ELSE advance(t)

\* block: a frame whose result registers start at the dynamic-register
\* cursor beneath the block parameters
translate_block(t, params, results) ==
    IF t.reachable
    THEN advance([t EXCEPT
            !.labels = LabelRegistry_new_label(@).labels,
            !.control = Append(@, BlockFrame(Len(t.stack) - params,
                                  IrRegisterSlice_new(
                                      next_dynamic(t.func.params,
                                                   pop_n(t.stack, params)),
                                      results),
                                  LabelRegistry_new_label(t.labels).label))])
    ELSE advance([t EXCEPT !.control = Append(@, UnreachableFrame)])

\* a branch to the function body: the Return of the providers on top
return_top(t) == emit(t, <<TrReturn(peek_n(t.stack, t.func.results))>>)

branch_without_copies(t, idx) ==
    emit([t EXCEPT !.control[idx].branches = @ + 1],
         <<TrBr(t.control[idx].end_label)>>)

\* a branch to a block: the copies into its result registers, then the Br to
\* its end label
branch_to_block(t, idx) ==
    emit([t EXCEPT !.control[idx].branches = @ + 1],
         copy_insts(t.control[idx].results,
                    peek_n(t.stack, t.control[idx].len_results))
            \o <<TrBr(t.control[idx].end_label)>>)

branch_to_func_as_block(t, idx) ==
    IF t.control[idx].kind = "func"
    THEN emit(t, <<TrBr(t.control[idx].end_label)>>)
    ELSE branch_to_block(t, idx)

\* the target of a branch acquired: Return for the function body
branch_to(t, idx) ==
    IF t.control[idx].kind = "func" THEN return_top(t) ELSE branch_to_block(t, idx)

\* br depth
translate_br(t, depth) ==
    IF t.reachable
    THEN advance(record(t, "br", t.control[Len(t.control) - depth], depth, t.stack,
                        [branch_to(t, Len(t.control) - depth) EXCEPT !.reachable = FALSE]))
    ELSE advance(t)

\* a conditional branch to a block: BrNez when nothing is to be copied, else
\* BrEqz over the copies and the Br
branch_nez_to_block(t, idx, cond, copies) ==
    IF copies = <<>>
    THEN emit([t EXCEPT !.control[idx].branches = @ + 1],
              <<TrBrNez(cond, t.control[idx].end_label)>>)
    ELSE [t EXCEPT
            !.control[idx].branches = @ + 1,
            !.insts = @ \o <<TrBrEqz(cond, Len(t.labels))>> \o copies
                        \o <<TrBr(t.control[idx].end_label)>>,
            !.labels = Append(@, Pinned(Len(t.insts) + Len(copies) + 2))]

\* the target of a conditional branch acquired: ReturnNez for the function body
branch_nez_to(t, idx, cond) ==
    IF t.control[idx].kind = "func"
    THEN emit(t, <<TrReturnNez(cond, peek_n(t.stack, t.func.results))>>)
    ELSE branch_nez_to_block(t, idx, cond,
                             copy_insts(t.control[idx].results,
                                        peek_n(t.stack, t.control[idx].len_results)))

\* br_if depth on the translator whose condition cond was popped
translate_br_if_on(t, popped, depth, cond) ==
    IF cond.tag = "Register"
    THEN advance(record(t, "br_if", popped.control[Len(t.control) - depth], depth,
                        popped.stack,
                        branch_nez_to(popped, Len(t.control) - depth, cond.reg)))
    ELSE IF cond.value # 0
    THEN advance(record(t, "br", popped.control[Len(t.control) - depth], depth,
                        popped.stack,
                        [branch_to(popped, Len(t.control) - depth)
                            EXCEPT !.reachable = FALSE]))
    ELSE advance(popped)

\* br_if depth
translate_br_if(t, depth) ==
    IF t.reachable
    THEN translate_br_if_on(t, [t EXCEPT !.stack = pop_n(@, 1)], depth,
                            t.stack[Len(t.stack)])
    ELSE advance(t)

\* the end of a block that branches target: the providers on top are copied
\* into the result registers when the end is reached by falling through, and
\* the code after the block finds the results in the result registers
end_branched_block(t, frame, popped) ==
    [popped EXCEPT
        !.insts = @ \o (IF t.reachable
                        THEN copy_insts(frame.results, peek_n(t.stack, frame.len_results))
                        ELSE <<>>),
        !.stack = SubSeq(@, 1, frame.height) \o slice_providers(frame.results),
        !.reachable = TRUE]

block_end_always_copies(t, frame, popped) ==
    [popped EXCEPT
        !.insts = @ \o (IF t.reachable
                        THEN copy_insts(frame.results, peek_n(t.stack, frame.len_results))
                        ELSE <<>>),
        !.stack = SubSeq(@, 1, frame.height) \o slice_providers(frame.results),
        !.reachable = t.reachable \/ frame.branches > 0]

\* the end of a block: a block no branch targets leaves the providers as
\* they are
end_block(t, frame, popped) ==
    IF frame.branches > 0 THEN end_branched_block(t, frame, popped) ELSE popped

\* the end label pinned at the instruction that comes next
pin_end(t, frame) ==
    [t EXCEPT !.labels = LabelRegistry_try_pin_label(@, frame.end_label, Len(t.insts))]

\* the end of the function: the Return of the providers on top when the end
\* is reached
end_func(t, frame, popped) ==
    [(IF t.reachable THEN return_top(pin_end(popped, frame)) ELSE pin_end(popped, frame))
        EXCEPT !.pc = "translated"]

\* end on the translator whose top control frame was popped
translate_end_on(t, frame, popped) ==
    IF frame.kind = "unreachable" THEN advance(popped)
    ELSE IF frame.kind = "func" THEN advance(end_func(t, frame, popped))
    ELSE advance(record(t, "end", frame, 0, t.stack,
                        pin_end(end_block(t, frame, popped), frame)))

\* end
translate_end(t) ==
    translate_end_on(t, t.control[Len(t.control)],
                     [t EXCEPT !.control = SubSeq(@, 1, Len(@) - 1)])

\* the branch instructions
is_tr_branch(inst) == inst.op \in {"Br", "BrEqz", "BrNez"}

\* resolve_branches: each label use replaced by the offset from the
\* instruction to the instruction the label is pinned at
resolve_branches(t) ==
    [i \in 1..Len(t.insts) |->
        IF is_tr_branch(t.insts[i])
        THEN [t.insts[i] EXCEPT
                !.offset = compile_label(t.labels, t.insts[i].label).target - (i - 1)]
        ELSE t.insts[i]]

\* the expected instructions of the translation tests, offsets resolved
ExpBr(offset) == [TrInst("Br") EXCEPT !.offset = offset]
ExpBrEqz(cond, offset) == [TrInst("BrEqz") EXCEPT !.cond = cond, !.offset = offset]
ExpBrNez(cond, offset) == [TrInst("BrNez") EXCEPT !.cond = cond, !.offset = offset]

TranslationTest(name, func, instrs) == [name |-> name, func |-> func, instrs |-> instrs]

\* the translation tests of blocks no branch targets
IdentityTests ==
    { TranslationTest("empty_block", WasmFunction(0, 0, <<Block(0, 0), End>>),
                      <<TrReturn(<<>>)>>),
      TranslationTest("nested_empty_block",
                      WasmFunction(0, 0, <<Block(0, 0), Block(0, 0), End, End>>),
                      <<TrReturn(<<>>)>>),
      TranslationTest("identity_block_1",
                      WasmFunction(1, 1, <<LocalGet(0), Block(1, 1), End>>),
                      <<TrReturn(<<IrReg(0)>>)>>),
      TranslationTest("identity_block_2",
                      WasmFunction(2, 1, <<LocalGet(0), LocalGet(1), Block(2, 2), End, Drop>>),
                      <<TrReturn(<<IrReg(0)>>)>>),
      TranslationTest("nested_identity_block_1",
                      WasmFunction(1, 1, <<LocalGet(0), Block(1, 1), Block(1, 1), End, End>>),
                      <<TrReturn(<<IrReg(0)>>)>>),
      TranslationTest("nested_identity_block_2",
                      WasmFunction(2, 1, <<LocalGet(0), LocalGet(1), Block(2, 2), Block(2, 2),
                                           End, End, Drop>>),
                      <<TrReturn(<<IrReg(0)>>)>>) }

\* the translation tests of branches to a block
BranchTests ==
    { TranslationTest("branched_block_0", WasmFunction(0, 0, <<Block(0, 0), WasmBr(0), End>>),
                      <<ExpBr(1), TrReturn(<<>>)>>),
      TranslationTest("branched_block_1",
                      WasmFunction(1, 1, <<LocalGet(0), Block(1, 1), WasmBr(0), End>>),
                      <<TrCopy(1, IrReg(0)), ExpBr(1), TrReturn(<<IrReg(1)>>)>>),
      TranslationTest("branched_block_1_imm_i32",
                      WasmFunction(0, 1, <<Block(0, 1), I32Const(7), WasmBr(0), End>>),
                      <<TrCopy(0, IrImm(7)), ExpBr(1), TrReturn(<<IrReg(0)>>)>>),
      TranslationTest("branched_block_2",
                      WasmFunction(2, 1, <<LocalGet(0), LocalGet(1), Block(2, 2), WasmBr(0),
                                           End, Drop>>),
                      <<TrCopyMany(IrRegisterSlice_new(2, 2), <<IrReg(0), IrReg(1)>>),
                        ExpBr(1), TrReturn(<<IrReg(2)>>)>>),
      TranslationTest("branch_if_block_0",
                      WasmFunction(1, 0, <<LocalGet(0), Block(1, 0), WasmBrIf(0), End>>),
                      <<ExpBrNez(0, 1), TrReturn(<<>>)>>),
      TranslationTest("branch_if_block_1",
                      WasmFunction(2, 1, <<LocalGet(0), LocalGet(1), Block(2, 1), WasmBrIf(0),
                                           End>>),
                      <<ExpBrEqz(1, 3), TrCopy(2, IrReg(0)), ExpBr(2), TrCopy(2, IrReg(0)),
                        TrReturn(<<IrReg(2)>>)>>) }

\* the translation tests of branches to the function body
ReturnTests ==
    { TranslationTest("branch_to_func_block_0", WasmFunction(0, 0, <<WasmBr(0)>>),
                      <<TrReturn(<<>>)>>),
      TranslationTest("branch_to_func_block_1", WasmFunction(1, 1, <<LocalGet(0), WasmBr(0)>>),
                      <<TrReturn(<<IrReg(0)>>)>>),
      TranslationTest("branch_to_func_block_nested_0",
                      WasmFunction(0, 0, <<Block(0, 0), WasmBr(1), End>>),
                      <<TrReturn(<<>>)>>),
      TranslationTest("branch_to_func_block_nested_1",
                      WasmFunction(1, 1, <<LocalGet(0), Block(1, 1), WasmBr(1), End>>),
                      <<TrReturn(<<IrReg(0)>>)>>) }

\* the providers a translated function starts from
Sources(len_locals) == {LocalGet(n) : n \in 0..(len_locals - 1)} \cup {I32Const(7)}

\* functions that hand providers through d nested blocks no branch targets
IdentityFunctions ==
    {WasmFunction(n, 1, LocalGets(n) \o Nested(d, n, n, <<>>) \o [k \in 1..(n - 1) |-> Drop]) :
        n \in 1..2, d \in 0..MaxDepth}
      \cup {WasmFunction(0, 0, Nested(d, 0, 0, <<>>)) : d \in 0..MaxDepth}
      \cup {WasmFunction(1, 1, <<I32Const(7)>> \o Nested(d, 1, 1, <<>>)) : d \in 0..MaxDepth}

\* functions that branch to the function body from inside d nested blocks,
\* some with code behind the branch
ReturnFunctions ==
    {WasmFunction(1, 1, <<src>> \o Nested(d, 1, 1, <<WasmBr(d)>> \o tail)) :
        src \in Sources(1), d \in 0..MaxDepth, tail \in {<<>>, <<Drop, I32Const(3)>>}}
      \cup {WasmFunction(0, 0, Nested(d, 0, 0, <<WasmBr(d)>>)) : d \in 0..MaxDepth}

\* functions that branch to a block with results, inside d nested blocks no
\* branch targets
BranchFunctions ==
    {WasmFunction(2, 1, Nested(d, 0, 1, <<src, Block(1, 1), WasmBr(0), End>>)) :
        src \in Sources(2), d \in 0..MaxDepth}
      \cup {WasmFunction(2, 1, Nested(d, 0, 1, <<src, LocalGet(1), Block(2, 1), WasmBrIf(0)>>
                                               \o tail \o <<End>>)) :
              src \in Sources(2), d \in 0..MaxDepth, tail \in {<<>>, <<Drop, I32Const(3)>>}}
      \cup {WasmFunction(2, 1, <<a, b, Block(2, 2), WasmBr(0), End, Drop>>) :
              a \in Sources(2), b \in Sources(2)}
      \cup {WasmFunction(1, 1, <<Block(0, 1), I32Const(7), WasmBr(0), End,
                                 Block(0, 1), src, br, End, Drop>>) :
              src \in Sources(1), br \in {WasmBr(0)}}

\* functions that mix the branches: a block that is the target of a br_if
\* and holds a branch to the function body, and a br_if to the function body
MixedFunctions ==
    { WasmFunction(1, 1, <<Block(0, 1), LocalGet(0), LocalGet(0), WasmBrIf(0), WasmBr(1), End>>),
      WasmFunction(2, 1, <<LocalGet(0), LocalGet(1), WasmBrIf(0)>>),
      WasmFunction(1, 1, <<LocalGet(0), I32Const(1), WasmBrIf(0), Drop, I32Const(3)>>),
      WasmFunction(1, 1, <<LocalGet(0), I32Const(0), WasmBrIf(0)>>) }

\* the translated functions
TranslatedFunctions ==
    IdentityFunctions \cup ReturnFunctions \cup BranchFunctions \cup MixedFunctions
        \cup {test.func : test \in IdentityTests \cup BranchTests \cup ReturnTests}

\* the operator the translator reads next
next_operator == tr.func.body[tr.at]

translating(op) == tr.pc = "translating" /\ next_operator.op = op

visit_local_get ==
    /\ translating("local.get")
    /\ tr' = translate_local_get(tr, next_operator.n)
    /\ UNCHANGED <<stack_vars, build_vars, copy_vars, res, elast, enc, runs, lock, threads, cf>>

visit_i32_const ==
    /\ translating("i32.const")
    /\ tr' = translate_i32_const(tr, next_operator.n)
    /\ UNCHANGED <<stack_vars, build_vars, copy_vars, res, elast, enc, runs, lock, threads, cf>>

visit_drop ==
    /\ translating("drop")
    /\ tr' = translate_drop(tr)
    /\ UNCHANGED <<stack_vars, build_vars, copy_vars, res, elast, enc, runs, lock, threads, cf>>

visit_block ==
    /\ translating("block")
    /\ tr' = translate_block(tr, next_operator.params, next_operator.results)
    /\ UNCHANGED <<stack_vars, build_vars, copy_vars, res, elast, enc, runs, lock, threads, cf>>

visit_end ==
    /\ translating("end")
    /\ tr' = translate_end(tr)
    /\ UNCHANGED <<stack_vars, build_vars, copy_vars, res, elast, enc, runs, lock, threads, cf>>

visit_br ==
    /\ translating("br")
    /\ tr' = translate_br(tr, next_operator.n)
    /\ UNCHANGED <<stack_vars, build_vars, copy_vars, res, elast, enc, runs, lock, threads, cf>>

visit_br_if ==
    /\ translating("br_if")
    /\ tr' = translate_br_if(tr, next_operator.n)
    /\ UNCHANGED <<stack_vars, build_vars, copy_vars, res, elast, enc, runs, lock, threads, cf>>

\* the function is finished: the branch offsets are resolved
translate_finish ==
    /\ tr.pc = "translated"
    /\ tr' = [tr EXCEPT !.pc = "done", !.insts = resolve_branches(tr)]
    /\ UNCHANGED <<stack_vars, build_vars, copy_vars, res, elast, enc, runs, lock, threads, cf>>

InitTranslate ==
    /\ values = <<>>
    /\ frames = <<>>
    /\ phase = "idle"
    /\ last = NoLast
    /\ BuildIdle
    /\ CopyIdle
    /\ res = NoRes
    /\ elast = NoELast
    /\ enc = [pc |-> "idle"]
    /\ runs = <<>>
    /\ lock = 0
    /\ threads = <<>>
    /\ cf = NoFrame
    /\ \E func \in TranslatedFunctions : tr = start(func)

NextTranslate ==
    \/ visit_local_get
    \/ visit_i32_const
    \/ visit_drop
    \/ visit_block
    \/ visit_end
    \/ visit_br
    \/ visit_br_if
    \/ translate_finish

SpecTranslate == InitTranslate /\ [][NextTranslate]_vars

\* the instructions without the labels the branches named
Resolved(seq) == [i \in 1..Len(seq) |-> [seq[i] EXCEPT !.label = 0]]

\* the translation tests whose function was translated
TestsOf(tests) == {test \in tests : tr.pc = "done" /\ test.func = tr.func}

TestsPass(tests) == \A test \in TestsOf(tests) : Resolved(tr.insts) = test.instrs

(***************************************************************************)
(* Claims about the translation of blocks and branches                     *)
(***************************************************************************)
\* the recorded events of one kind of branch target
BranchEvents(target) ==
    {k \in 1..Len(tr.events) :
        tr.events[k].kind \in {"br", "br_if"} /\ tr.events[k].target = target}

\* the events of a function other than event k leave all blocks untargeted
OnlyBranch(k) ==
    \A j \in 1..Len(tr.events) :
        j # k => (tr.events[j].kind = "end" /\ tr.events[j].branches = 0)

TrRegisters == 0..(tr.func.params + Len(tr.func.body))

\* what a provider yields when the registers hold regs
ProviderIn(regs, provider) ==
    IF provider.tag = "Register" THEN regs[provider.reg] ELSE provider

\* the registers after a copy instruction, in terms of the providers before
AfterCopy(regs, inst) ==
    [r \in DOMAIN regs |->
        IF inst.op \in {"Copy", "CopyImm"} /\ r = inst.result
        THEN ProviderIn(regs, inst.input)
        ELSE IF /\ inst.op = "CopyMany"
                /\ r >= inst.results.first
                /\ r < inst.results.first + inst.results.len
        THEN ProviderIn(regs, inst.inputs[r - inst.results.first + 1])
        ELSE regs[r]]

\* the registers after the instructions from + 1 .. to of the function, in
\* terms of the providers before them
AfterCopies(from, to) ==
    LET after[n \in from..to] ==
            IF n = from
            THEN [r \in TrRegisters |-> IrReg(r)]
            ELSE AfterCopy(after[n - 1], tr.insts[n])
    IN  after[to]

\* the event of the end of the block with the label, 0 when not yet there
EndOf(label) ==
    IF \E j \in 1..Len(tr.events) : tr.events[j].kind = "end" /\ tr.events[j].label = label
    THEN CHOOSE j \in 1..Len(tr.events) :
            tr.events[j].kind = "end" /\ tr.events[j].label = label
    ELSE 0

UntargetedEnds ==
    {k \in 1..Len(tr.events) : tr.events[k].kind = "end" /\ tr.events[k].branches = 0}

\* the provider a function of IdentityFunctions hands through its blocks
Handed(func) ==
    IF func.results = 0 THEN <<>>
    ELSE IF func.body[1].op = "local.get" THEN <<IrReg(func.body[1].n)>>
    ELSE <<IrImm(func.body[1].n)>>

MaxUpdates == 3

\* BlockControlFrame::new
BlockControlFrame(results, end_label, stack_height) ==
    [kind |-> "Block", stack_height |-> stack_height, results |-> results,
     end_label |-> end_label]

\* LoopControlFrame::new
LoopControlFrame(branch_results, end_results, head_label, stack_height) ==
    [kind |-> "Loop", stack_height |-> stack_height, branch_results |-> branch_results,
     end_results |-> end_results, head_label |-> head_label]

\* IfReachability::both: end_of_then_is_reachable starts as None
IfReachability_both(else_label) ==
    [tag |-> "Both", else_label |-> else_label, end_of_then_is_reachable |-> "None"]

\* IfReachability::OnlyThen and ::OnlyElse
IfReachability_only(tag) ==
    [tag |-> tag, else_label |-> 0, end_of_then_is_reachable |-> "None"]

\* IfControlFrame::new
IfControlFrame(results, end_label, stack_height, reachability) ==
    [kind |-> "If", stack_height |-> stack_height, results |-> results,
     end_label |-> end_label, reachability |-> reachability]

\* UnreachableControlFrame::new
UnreachableControlFrame(kind) == [kind |-> "Unreachable", of |-> kind]

\* Option<bool>::Some
Some(b) == IF b THEN "Some(true)" ELSE "Some(false)"

\* IfReachabilityBoth::update_end_of_then_reachability
both_update_end_of_then_reachability(info, reachable) ==
    IF info.end_of_then_is_reachable = "None"
    THEN [ok |-> TRUE, info |-> [info EXCEPT !.end_of_then_is_reachable = Some(reachable)]]
    ELSE [ok |-> FALSE, info |-> info]

\* IfReachabilityBoth::visited_else
both_visited_else(info) == info.end_of_then_is_reachable # "None"

update_overwrites(frame, reachable) ==
    IF frame.reachability.tag = "Both"
    THEN [ok |-> TRUE,
          frame |-> [frame EXCEPT !.reachability.end_of_then_is_reachable = Some(reachable)]]
    ELSE [ok |-> TRUE, frame |-> frame]

\* IfControlFrame::update_end_of_then_reachability
update_end_of_then_reachability(frame, reachable) ==
    IF frame.reachability.tag = "Both"
    THEN LET r == both_update_end_of_then_reachability(frame.reachability, reachable)
         IN  [ok |-> r.ok, frame |-> [frame EXCEPT !.reachability = r.info]]
    ELSE [ok |-> TRUE, frame |-> frame]

\* IfControlFrame::visited_else
visited_else(frame) ==
    IF frame.reachability.tag = "Both"
    THEN both_visited_else(frame.reachability)
    ELSE TRUE

loop_branches_to_end(frame) ==
    IF frame.kind = "Unreachable"
    THEN [ok |-> FALSE, label |-> 0]
    ELSE [ok |-> TRUE, label |-> IF frame.kind = "Loop" THEN frame.head_label + 1
                                 ELSE frame.end_label]

\* ControlFrame::branch_destination, [ok |-> FALSE] for the panic
branch_destination(frame) ==
    IF frame.kind = "Block" THEN [ok |-> TRUE, label |-> frame.end_label]
    ELSE IF frame.kind = "Loop" THEN [ok |-> TRUE, label |-> frame.head_label]
    ELSE IF frame.kind = "If" THEN [ok |-> TRUE, label |-> frame.end_label]
    ELSE [ok |-> FALSE, label |-> 0]

\* ControlFrame::branch_results, [ok |-> FALSE] for the panic
branch_results(frame) ==
    IF frame.kind = "Block" THEN [ok |-> TRUE, slice |-> frame.results]
    ELSE IF frame.kind = "Loop" THEN [ok |-> TRUE, slice |-> frame.branch_results]
    ELSE IF frame.kind = "If" THEN [ok |-> TRUE, slice |-> frame.results]
    ELSE [ok |-> FALSE, slice |-> IrRegisterSlice_new(0, 0)]

\* BlockControlFrame::end_results, LoopControlFrame::end_results and
\* IfControlFrame::end_results
end_results(frame) ==
    IF frame.kind = "Loop" THEN frame.end_results ELSE frame.results

\* ControlFrame::stack_height, [some |-> FALSE] for None
stack_height(frame) ==
    IF frame.kind = "Unreachable"
    THEN [some |-> FALSE, height |-> 0]
    ELSE [some |-> TRUE, height |-> frame.stack_height]

\* the register slices, labels and stack heights the frames are created with
FrameSlices == {IrRegisterSlice_new(0, 0), IrRegisterSlice_new(0, 1), IrRegisterSlice_new(1, 2)}
FrameLabels == {0, 1, 2}
FrameHeights == {0, 2}

\* the control frames pushed by the translator
ControlFrames ==
    {BlockControlFrame(rs, l, h) : rs \in FrameSlices, l \in FrameLabels, h \in FrameHeights}
    \cup {LoopControlFrame(brs, ers, l, h) :
             brs \in FrameSlices, ers \in FrameSlices, l \in FrameLabels, h \in FrameHeights}
    \cup {IfControlFrame(rs, l, h, IfReachability_both(el)) :
             rs \in FrameSlices, l \in {0, 1}, h \in FrameHeights, el \in {2}}
    \cup {IfControlFrame(rs, l, h, IfReachability_only(tag)) :
             rs \in FrameSlices, l \in {0, 1}, h \in {0}, tag \in {"OnlyThen", "OnlyElse"}}
    \cup {UnreachableControlFrame(kind) : kind \in {"Block", "Loop", "If"}}

\* the record of a call made on the frame: the frame before it and what the
\* call returned
FrameCall(op, arg, before, ok, out) ==
    [op |-> op, arg |-> arg, before |-> before, ok |-> ok, out |-> out]

\* a call of update_end_of_then_reachability on an If frame
do_update_end_of_then_reachability(reachable) ==
    /\ cf.pc = "ready"
    /\ cf.frame.kind = "If"
    /\ cf.updates < MaxUpdates
    /\ \E r \in {update_end_of_then_reachability(cf.frame, reachable)} :
          cf' = [cf EXCEPT !.pc = IF r.ok THEN "ready" ELSE "panicked",
                           !.frame = r.frame,
                           !.updates = @ + 1,
                           !.first = IF cf.updates = 0 THEN Some(reachable) ELSE @,
                           !.last = FrameCall("update_end_of_then_reachability",
                                              reachable, cf.frame, r.ok, r.ok)]
    /\ UNCHANGED <<stack_vars, build_vars, copy_vars, res, elast, enc, runs, lock,
                   threads, tr>>

\* a call of visited_else on an If frame
do_visited_else ==
    /\ cf.pc = "ready"
    /\ cf.frame.kind = "If"
    /\ cf' = [cf EXCEPT !.last = FrameCall("visited_else", 0, cf.frame, TRUE,
                                           visited_else(cf.frame))]
    /\ UNCHANGED <<stack_vars, build_vars, copy_vars, res, elast, enc, runs, lock,
                   threads, tr>>

\* a call of ControlFrame::branch_destination
do_branch_destination ==
    /\ cf.pc = "ready"
    /\ \E r \in {branch_destination(cf.frame)} :
          cf' = [cf EXCEPT !.pc = IF r.ok THEN "ready" ELSE "panicked",
                           !.last = FrameCall("branch_destination", 0, cf.frame,
                                              r.ok, r.label)]
    /\ UNCHANGED <<stack_vars, build_vars, copy_vars, res, elast, enc, runs, lock,
                   threads, tr>>

\* a call of ControlFrame::branch_results
do_branch_results ==
    /\ cf.pc = "ready"
    /\ \E r \in {branch_results(cf.frame)} :
          cf' = [cf EXCEPT !.pc = IF r.ok THEN "ready" ELSE "panicked",
                           !.last = FrameCall("branch_results", 0, cf.frame,
                                              r.ok, r.slice)]
    /\ UNCHANGED <<stack_vars, build_vars, copy_vars, res, elast, enc, runs, lock,
                   threads, tr>>

\* a call of end_results on a Block, Loop or If frame
do_end_results ==
    /\ cf.pc = "ready"
    /\ cf.frame.kind # "Unreachable"
    /\ cf' = [cf EXCEPT !.last = FrameCall("end_results", 0, cf.frame, TRUE,
                                           end_results(cf.frame))]
    /\ UNCHANGED <<stack_vars, build_vars, copy_vars, res, elast, enc, runs, lock,
                   threads, tr>>

\* a call of ControlFrame::stack_height
do_stack_height ==
    /\ cf.pc = "ready"
    /\ cf' = [cf EXCEPT !.last = FrameCall("stack_height", 0, cf.frame, TRUE,
                                           stack_height(cf.frame))]
    /\ UNCHANGED <<stack_vars, build_vars, copy_vars, res, elast, enc, runs, lock,
                   threads, tr>>

\* a control frame just created
InitFrames ==
    /\ values = <<>>
    /\ frames = <<>>
    /\ phase = "idle"
    /\ last = NoLast
    /\ BuildIdle
    /\ CopyIdle
    /\ res = NoRes
    /\ elast = NoELast
    /\ enc = [pc |-> "idle"]
    /\ runs = <<>>
    /\ lock = 0
    /\ threads = <<>>
    /\ tr = NoTranslation
    /\ \E frame \in ControlFrames :
          cf = [pc |-> "ready", frame |-> frame, created |-> frame, updates |-> 0,
                first |-> "None",
                last |-> FrameCall("new", 0, frame, TRUE, TRUE)]

NextFrames ==
    \/ \E reachable \in BOOLEAN : do_update_end_of_then_reachability(reachable)
    \/ do_visited_else
    \/ do_branch_destination
    \/ do_branch_results
    \/ do_end_results
    \/ do_stack_height

SpecFrames == InitFrames /\ [][NextFrames]_vars

(***************************************************************************)
(* Claims about the control frames                                         *)
(***************************************************************************)
\* C23: for an If frame whose reachability is Both the end-of-then
\* reachability starts unset and visited_else() is false; the first update
\* sets it, a second update panics and leaves the recorded value unchanged,
\* and from the first update on visited_else() is true; for OnlyThen and
\* OnlyElse frames visited_else() is always true and the update changes
\* nothing and never fails.
C23_EndOfThen ==
    (cf.pc # "idle" /\ cf.frame.kind = "If") =>
        LET reach == cf.frame.reachability
        IN  /\ reach.tag = cf.created.reachability.tag
            /\ reach.tag = "Both" =>
                  /\ reach.end_of_then_is_reachable = cf.first
                  /\ cf.updates = 0 => ~visited_else(cf.frame)
                  /\ cf.updates >= 1 => visited_else(cf.frame)
                  /\ cf.updates <= 2
                  /\ (cf.pc = "panicked") <=> (cf.updates = 2)
                  /\ cf.last.op = "update_end_of_then_reachability" =>
                        /\ cf.last.ok <=> (cf.updates = 1)
                        /\ ~cf.last.ok => cf.frame = cf.last.before
                  /\ cf.last.op = "visited_else" => (cf.last.out <=> (cf.updates >= 1))
            /\ reach.tag \in {"OnlyThen", "OnlyElse"} =>
                  /\ cf.frame = cf.created
                  /\ cf.pc = "ready"
                  /\ visited_else(cf.frame)
                  /\ cf.last.op = "visited_else" => cf.last.out
                  /\ cf.last.op = "update_end_of_then_reachability" => cf.last.ok

\* a Both frame was updated to "not reachable" and then updated again with
\* "reachable": the second call panicked and the frame still says "not
\* reachable"
C23_Witness ==
    /\ cf.pc = "panicked"
    /\ cf.frame.kind = "If"
    /\ cf.frame.reachability.tag = "Both"
    /\ cf.updates = 2
    /\ cf.last.op = "update_end_of_then_reachability"
    /\ cf.last.arg = TRUE
    /\ cf.frame.reachability.end_of_then_is_reachable = "Some(false)"

\* C24: the branch destination of a frame is its end label for a Block and an
\* If and its head label for a Loop; a Block or If uses one register slice for
\* branch results and end results, a Loop a separate slice for each; asking an
\* Unreachable frame for its branch destination or branch results panics, and
\* its stack height is absent.
C24_BranchDestination ==
    cf.pc # "idle" =>
        LET f == cf.last.before
            made == cf.created
        IN  /\ cf.last.op = "branch_destination" =>
                  /\ f.kind \in {"Block", "If"} =>
                        (cf.last.ok /\ cf.last.out = made.end_label)
                  /\ f.kind = "Loop" => (cf.last.ok /\ cf.last.out = made.head_label)
                  /\ f.kind = "Unreachable" => (~cf.last.ok /\ cf.pc = "panicked")
            /\ cf.last.op = "branch_results" =>
                  /\ f.kind \in {"Block", "If"} => (cf.last.ok /\ cf.last.out = made.results)
                  /\ f.kind = "Loop" => (cf.last.ok /\ cf.last.out = made.branch_results)
                  /\ f.kind = "Unreachable" => (~cf.last.ok /\ cf.pc = "panicked")
            /\ cf.last.op = "end_results" =>
                  /\ f.kind \in {"Block", "If"} => cf.last.out = made.results
                  /\ f.kind = "Loop" => cf.last.out = made.end_results
            /\ cf.last.op = "stack_height" =>
                  /\ f.kind = "Unreachable" => ~cf.last.out.some
                  /\ f.kind # "Unreachable" =>
                        cf.last.out = [some |-> TRUE, height |-> made.stack_height]
            /\ cf.frame.kind \in {"Block", "If"} =>
                  branch_results(cf.frame).slice = end_results(cf.frame)

\* a Loop with different slices for branch and end results was asked for its
\* branch destination: the head label
C24_Witness ==
    /\ cf.pc = "ready"
    /\ cf.frame.kind = "Loop"
    /\ cf.frame.branch_results # cf.frame.end_results
    /\ cf.last.op = "branch_destination"
    /\ cf.last.out = cf.frame.head_label
    /\ cf.frame.head_label = 2

====
